---- MODULE Spec2Model ----
(***************************************************************************)
(* Storage and caching engine of the email service: the cache ledger       *)
(* (CacheManager), the email content store (EmailCache), and the account   *)
(* folder migration run by LoadConfig.                                     *)
(* Times are in hours.                                                     *)
(***************************************************************************)
EXTENDS Integers, Sequences, FiniteSets, TLC

\* ------------------------------------------------------------------------
\* Program constants
\* ------------------------------------------------------------------------
maxAge == 24
CacheExpiry == 96
maxSize == 1024

\* ------------------------------------------------------------------------
\* Bounds of the model
\* ------------------------------------------------------------------------
MaxNow == 32
MaxCacheNow == 144
CacheTickSteps == {48}
MetaBytes == 600
MsgIDs == {"m1"}
Bodies == {<<>>, <<"a", "b">>}
HTMLBodies == {<<>>, <<"t", "a", "s">>, <<"t">>}
Formats == {"text", "raw_html"}
MaxOffset == 2
MaxLimit == 2
MaxReadLimit == 3
MaxConfigNow == 4
MaxCacheIDLen == 50
HashWidth == 32
MaxCoreLen == 3
PadLengths == {0, 46, 47, 50}
MaxFetchNow == 0
FolderNames == {"A", "B"}
ConfiguredIDs == {"A", "B"}
DraftIDs == {"d1"}
FetchIDs == {"m1", "m2"}
HeaderBytes == {0, 500}
PreviewLength == 2
FetchedBodies == {<<"a", "b">>}
FetchedHTMLBodies == {<<>>}
Goroutines == {"g1", "g2"}
MaxRootNow == 3
LedgerTotals == {0, 500}
MaxRequests == 1
ServeOffsets == {-1, 0}
ServeLimits == {-1, 2}
PreviewLengths == {1, 2}
AccountIDs == {"A", "B", "C"}
EmailAddresses == {"x", "y"}
ReadBodies == {<<>>, <<"a">>, <<"a", "b", "a", "b", "b">>}
TickSteps == {8, 24}
IDs == {"a", "b", "c"}
Types == {"email", "attachment"}
Sizes == {500, 600, 1500}

VARIABLES
  now,        \* time.Now(), in hours
  Entries,    \* CacheMetadata.Entries as persisted in cache_metadata.yaml
  TotalSize,  \* CacheMetadata.TotalSize as persisted
  files,      \* backing files present on disk, named by entry id
  last,       \* the last ledger operation: its arguments, input and effects
  emails,     \* the directories under cache/emails, by message id
  lastRead,   \* the last read of the email cache and what it returned
  rd,         \* a paginated reading session of one caller
  disk,       \* the account folders under FILES_ROOT, by folder name
  load,       \* the last configuration load: its accounts, plans and effects
  boot,       \* one start of the server, statement by statement
  thr,        \* goroutines inside CacheManager.AddEntry on one ledger file
  envs,       \* the metadata.yaml documents of cached emails and the last one read
  cid,        \* a message id and the directory names derived from it
  scan,       \* the entries of FILES_ROOT and the last scan of them
  hnd,        \* the handler: its configuration, clients and account folders
  environ     \* the environment variables and the last LoadConfig on them

ledgerVars == <<now, Entries, TotalSize, files, last>>
cacheVars == <<emails, lastRead>>
cfgVars == <<disk, load>>
sideVars == <<scan, hnd, environ>>
auxVars == <<boot, thr, envs, cid, sideVars>>

\* ------------------------------------------------------------------------
\* Helpers
\* ------------------------------------------------------------------------
RECURSIVE SumSizes(_)
SumSizes(s) == IF s = <<>> THEN 0 ELSE Head(s).Size + SumSizes(Tail(s))

Range(s) == {s[i] : i \in 1..Len(s)}

\* mutant: the lookup by id never finds an entry
EntryIDs_None(s) == {}

\* the ids the loop 'if entry.ID == id' can find
EntryIDs(s) == {s[i].ID : i \in 1..Len(s)}

IndexOf(s, id) == CHOOSE i \in 1..Len(s) : s[i].ID = id /\ \A j \in 1..(i-1) : s[j].ID # id

CacheEntry(id, ty, size, t) ==
  [ID |-> id, Type |-> ty, Size |-> size, CachedAt |-> t, AccessedAt |-> t, FilePath |-> id]

\* input is the entry list the operation worked on (for a new entry, the list
\* with the entry appended); added says that a new entry was appended
NoOp == [op |-> "none", id |-> "", size |-> 0, at |-> 0, input |-> <<>>, added |-> FALSE,
         cleaned |-> FALSE, removed |-> <<>>, err |-> FALSE]

\* ------------------------------------------------------------------------
\* CacheManager.cleanup
\* ------------------------------------------------------------------------
\* age := now.Sub(entry.CachedAt); the entry is kept when age < cm.maxAge
IsValidAge(e, t) == t - e.CachedAt < maxAge

\* mutant: the size sweep orders by last access instead of creation
SortLess_ByAccess(e1, e2) == e1.AccessedAt < e2.AccessedAt

\* mutant: the less function also holds for equal creation times
SortLess_OrEqual(e1, e2) == e1.CachedAt <= e2.CachedAt

\* less function handed to sort.Slice
SortLess(e1, e2) == e1.CachedAt < e2.CachedAt

\* sort.Slice on a slice of at most 12 elements is an insertion sort: each
\* element moves left while it is less than its left neighbour
RECURSIVE InsertLeft(_, _)
InsertLeft(sorted, e) ==
  IF sorted # <<>> /\ SortLess(e, sorted[Len(sorted)])
    THEN Append(InsertLeft(SubSeq(sorted, 1, Len(sorted) - 1), e), sorted[Len(sorted)])
    ELSE Append(sorted, e)

RECURSIVE SortFrom(_, _)
SortFrom(sorted, rest) ==
  IF rest = <<>> THEN sorted ELSE SortFrom(InsertLeft(sorted, Head(rest)), Tail(rest))

SortSlice(s) == SortFrom(<<>>, s)

\* mutant: the size sweep always keeps the last entry
SweepContinues_KeepLast(total, valid) == total > maxSize /\ Len(valid) > 1

\* loop condition of the size sweep
SweepContinues(total, valid) == total > maxSize /\ Len(valid) > 0

\* mutant: the size sweep drops the entry without subtracting its size
SweepTotal_NoSubtract(total, e) == total

\* totalSize -= entry.Size
SweepTotal(total, e) == total - e.Size

\* for totalSize > cm.maxSize && len(validEntries) > 0 { ... }
RECURSIVE SizeSweep(_, _, _)
SizeSweep(valid, total, removed) ==
  IF SweepContinues(total, valid)
    THEN SizeSweep(Tail(valid), SweepTotal(total, Head(valid)), Append(removed, Head(valid).FilePath))
    ELSE [Entries |-> valid, TotalSize |-> total, removed |-> removed]

\* the result of cleanup(metadata) at time t; removed is the sequence of
\* os.Remove calls
RECURSIVE PathsOf(_)
PathsOf(s) == IF s = <<>> THEN <<>> ELSE <<Head(s).FilePath>> \o PathsOf(Tail(s))

cleanup(entries, t) ==
  LET validEntries == SelectSeq(entries, LAMBDA e : IsValidAge(e, t))
      aged == PathsOf(SelectSeq(entries, LAMBDA e : ~IsValidAge(e, t)))
      totalSize == SumSizes(validEntries)
  IN IF totalSize > maxSize
       THEN SizeSweep(SortSlice(validEntries), totalSize, aged)
       ELSE [Entries |-> validEntries, TotalSize |-> totalSize, removed |-> aged]

\* ------------------------------------------------------------------------
\* CacheManager.AddEntry, GetEntry, ClearCache
\* ------------------------------------------------------------------------
\* mutant: AddEntry never runs the cleanup pass
NeedsCleanup_Never(total) == FALSE

\* if metadata.TotalSize > cm.maxSize { cleanup }
NeedsCleanup(total) == total > maxSize

\* os.Remove of each path of the sequence
RemoveAll(fs, removed) == fs \ Range(removed)

\* mutant: AddEntry on an existing id also takes over the size
AddEntryResult_Resize(entries, total, id, ty, size, t) ==
  IF id \in EntryIDs(entries)
    THEN [Entries |-> [entries EXCEPT ![IndexOf(entries, id)].AccessedAt = t,
                                      ![IndexOf(entries, id)].Size = size],
          TotalSize |-> total - entries[IndexOf(entries, id)].Size + size,
          input |-> entries, added |-> FALSE, cleaned |-> FALSE, removed |-> <<>>]
    ELSE LET appended == Append(entries, CacheEntry(id, ty, size, t))
             newTotal == total + size
         IN IF NeedsCleanup(newTotal)
              THEN LET r == cleanup(appended, t)
                   IN [Entries |-> r.Entries, TotalSize |-> r.TotalSize, input |-> appended,
                       added |-> TRUE, cleaned |-> TRUE, removed |-> r.removed]
              ELSE [Entries |-> appended, TotalSize |-> newTotal, input |-> appended,
                    added |-> TRUE, cleaned |-> FALSE, removed |-> <<>>]

\* The result of AddEntry(id, ty, path, size) at time t on the ledger
\* (entries, total): the ledger to be saved and what the call did.
AddEntryResult(entries, total, id, ty, size, t) ==
  IF id \in EntryIDs(entries)
    THEN [Entries |-> [entries EXCEPT ![IndexOf(entries, id)].AccessedAt = t],
          TotalSize |-> total, input |-> entries, added |-> FALSE, cleaned |-> FALSE,
          removed |-> <<>>]
    ELSE LET appended == Append(entries, CacheEntry(id, ty, size, t))
             newTotal == total + size
         IN IF NeedsCleanup(newTotal)
              THEN LET r == cleanup(appended, t)
                   IN [Entries |-> r.Entries, TotalSize |-> r.TotalSize, input |-> appended,
                       added |-> TRUE, cleaned |-> TRUE, removed |-> r.removed]
              ELSE [Entries |-> appended, TotalSize |-> newTotal, input |-> appended,
                    added |-> TRUE, cleaned |-> FALSE, removed |-> <<>>]

LastAdd(id, size, t, r) ==
  [NoOp EXCEPT !.op = "AddEntry", !.id = id, !.size = size, !.at = t, !.input = r.input,
               !.added = r.added, !.cleaned = r.cleaned, !.removed = r.removed]

\* The caller has written the backing file of the entry before it registers
\* it (Storage.SaveEmail writes the file, then calls AddEntry).
AddEntry(id, ty, size) ==
  LET r == AddEntryResult(Entries, TotalSize, id, ty, size, now)
  IN /\ Entries' = r.Entries
     /\ TotalSize' = r.TotalSize
     /\ files' = RemoveAll(files \cup {id}, r.removed)
     /\ last' = LastAdd(id, size, now, r)

GetEntry(id) ==
  /\ IF id \in EntryIDs(Entries)
       THEN /\ Entries' = [Entries EXCEPT ![IndexOf(Entries, id)].AccessedAt = now]
            /\ last' = [NoOp EXCEPT !.op = "GetEntry", !.id = id, !.at = now, !.input = Entries]
       ELSE /\ UNCHANGED Entries
            /\ last' = [NoOp EXCEPT !.op = "GetEntry", !.id = id, !.at = now, !.input = Entries,
                                    !.err = TRUE]
  /\ UNCHANGED <<TotalSize, files>>

ClearCache ==
  /\ Entries' = <<>>
  /\ TotalSize' = 0
  /\ files' = RemoveAll(files, PathsOf(Entries))
  /\ last' = [NoOp EXCEPT !.op = "ClearCache", !.at = now, !.input = Entries,
                          !.removed = PathsOf(Entries)]

Tick ==
  /\ \E d \in TickSteps : now + d <= MaxNow /\ now' = now + d
  /\ UNCHANGED <<Entries, TotalSize, files, last, emails, lastRead, rd, cfgVars, auxVars>>

InitLedger ==
  /\ now = 0
  /\ Entries = <<>>
  /\ TotalSize = 0
  /\ files = {}
  /\ last = NoOp

\* ------------------------------------------------------------------------
\* email.ConvertHTMLToText: the tags are stripped, then strings.TrimSpace.
\* A body is a sequence of bytes: "t" is a byte of a tag, "s" white space.
\* ------------------------------------------------------------------------
RECURSIVE StripTags(_)
StripTags(h) ==
  IF h = <<>> THEN <<>>
  ELSE IF Head(h) = "t" THEN StripTags(Tail(h)) ELSE <<Head(h)>> \o StripTags(Tail(h))

RECURSIVE TrimLeft(_)
TrimLeft(x) == IF x # <<>> /\ Head(x) = "s" THEN TrimLeft(Tail(x)) ELSE x

RECURSIVE TrimRight(_)
TrimRight(x) ==
  IF x # <<>> /\ x[Len(x)] = "s" THEN TrimRight(SubSeq(x, 1, Len(x) - 1)) ELSE x

ConvertHTMLToText(h) == IF h = <<>> THEN <<>> ELSE TrimRight(TrimLeft(StripTags(h)))

\* ------------------------------------------------------------------------
\* EmailCache: one directory per message with metadata.yaml and body files
\* ------------------------------------------------------------------------
NoFile == <<"absent">>
NoEmail == [present |-> FALSE]

\* the directory SaveEmail leaves for a message with the given bodies, saved
\* at time t over the directory old; files of an earlier save that this save
\* does not write stay in place
SaveEmailDir(old, body, html, t) ==
  LET converted == ConvertHTMLToText(html)
      writesConverted == html # <<>> /\ body = <<>> /\ converted # <<>>
      prev(f) == IF old.present THEN old[f] ELSE NoFile
  IN [present |-> TRUE,
      CachedAt |-> t,
      TextBodySize |-> Len(body),
      HTMLBodySize |-> Len(html),
      ConvertedTextSize |-> IF writesConverted THEN Len(converted) ELSE 0,
      text |-> IF body # <<>> THEN body ELSE prev("text"),
      html |-> IF html # <<>> THEN html ELSE prev("html"),
      converted |-> IF writesConverted THEN converted ELSE prev("converted")]

\* totalSize handed to AddEntry
SaveEmailSize(dir) == dir.TextBodySize + dir.HTMLBodySize + dir.ConvertedTextSize + MetaBytes

\* os.Remove of an email directory fails, the directory is never empty; only
\* plain backing files are removed
SaveEmail(m, body, html) ==
  LET dir == SaveEmailDir(emails[m], body, html, now)
      r == AddEntryResult(Entries, TotalSize, m, "email", SaveEmailSize(dir), now)
  IN /\ emails' = [emails EXCEPT ![m] = dir]
     /\ Entries' = r.Entries
     /\ TotalSize' = r.TotalSize
     /\ files' = RemoveAll(files, r.removed)
     /\ last' = LastAdd(m, SaveEmailSize(dir), now, r)

\* mutant: the one-day limit of the ledger is used as the expiry window
IsExpired_OneDay(dir, t) == t - dir.CachedAt > maxAge

\* time.Since(metadata.CachedAt) > CacheExpiry
IsExpired(dir, t) == t - dir.CachedAt > CacheExpiry

\* EmailCache.LoadMetadata: "" when the metadata is returned
LoadMetadata(dir, t) ==
  IF ~dir.present THEN "email not in cache"
  ELSE IF IsExpired(dir, t) THEN "cache entry expired"
  ELSE ""

IsCached(dir, t) == LoadMetadata(dir, t) = ""

\* mutant: the read ignores the size of the buffer
ChunkLen_NoLimit(len, off, limit) ==
  LET start == IF off > 0 THEN off ELSE 0
  IN IF len > start THEN len - start ELSE 0

\* n bytes read at offset off of a file of length len with a buffer of limit
ChunkLen(len, off, limit) ==
  LET start == IF off > 0 THEN off ELSE 0
      left == IF len > start THEN len - start ELSE 0
  IN IF limit < left THEN limit ELSE left

\* EmailCache.readFileChunk: make([]byte, limit) panics on a negative limit
readFileChunk(file, offset, limit) ==
  IF file = NoFile THEN [err |-> "failed to open file", content |-> <<>>]
  ELSE IF limit < 0 THEN [err |-> "panic", content |-> <<>>]
  ELSE LET start == IF offset > 0 THEN offset ELSE 0
           n == ChunkLen(Len(file), offset, limit)
       IN [err |-> "", content |-> SubSeq(file, start + 1, start + n)]

\* mutant: the offset is not subtracted
remaining_IgnoreOffset(totalSize, offset, n) ==
  IF totalSize - n < 0 THEN 0 ELSE totalSize - n

\* remaining := totalSize - offset - len(content), not below 0
remaining(totalSize, offset, n) ==
  IF totalSize - offset - n < 0 THEN 0 ELSE totalSize - offset - n

NoResult(err) ==
  [err |-> err, Content |-> <<>>, Format |-> "", Source |-> "", TotalSize |-> 0, Offset |-> 0,
   Limit |-> 0, Remaining |-> 0, IsComplete |-> FALSE]

\* EmailCache.readBodyFile
readBodyFile(file, format, source, totalSize, offset, limit) ==
  LET c == readFileChunk(file, offset, limit)
  IN IF c.err # "" THEN NoResult(c.err)
     ELSE [err |-> "", Content |-> c.content, Format |-> format, Source |-> source,
           TotalSize |-> totalSize, Offset |-> offset, Limit |-> limit,
           Remaining |-> remaining(totalSize, offset, Len(c.content)),
           IsComplete |-> remaining(totalSize, offset, Len(c.content)) = 0]

EmptyResult(format, limit) ==
  [err |-> "", Content |-> <<>>, Format |-> format, Source |-> "none", TotalSize |-> 0,
   Offset |-> 0, Limit |-> limit, Remaining |-> 0, IsComplete |-> TRUE]

\* EmailCache.readText: the result and the directory it leaves. wbFile and
\* wbMeta say whether the two write-backs of the on-the-fly conversion succeed.
readText(dir, offset, limit, wbFile, wbMeta) ==
  IF dir.TextBodySize > 0
    THEN [res |-> readBodyFile(dir.text, "text", "text_body", dir.TextBodySize, offset, limit),
          dir |-> dir]
  ELSE IF dir.ConvertedTextSize > 0
    THEN [res |-> readBodyFile(dir.converted, "text", "html_converted", dir.ConvertedTextSize,
                               offset, limit),
          dir |-> dir]
  ELSE IF dir.HTMLBodySize > 0
    THEN IF dir.html = NoFile
           THEN [res |-> NoResult("failed to read HTML body"), dir |-> dir]
           ELSE LET converted == ConvertHTMLToText(dir.html)
                    d1 == IF wbFile THEN [dir EXCEPT !.converted = converted] ELSE dir
                    d2 == IF wbMeta THEN [d1 EXCEPT !.ConvertedTextSize = Len(converted)] ELSE d1
                IN [res |-> readBodyFile(d1.converted, "text", "html_converted", Len(converted),
                                         offset, limit),
                    dir |-> d2]
  ELSE [res |-> EmptyResult("text", limit), dir |-> dir]

\* EmailCache.readRawHTML
readRawHTML(dir, offset, limit) ==
  IF dir.HTMLBodySize = 0
    THEN EmptyResult("raw_html", limit)
    ELSE readBodyFile(dir.html, "raw_html", "html_body", dir.HTMLBodySize, offset, limit)

\* EmailCache.ReadBody at time t: the result and the directory it leaves
ReadBodyResult(dir, format, offset, limit, t, wbFile, wbMeta) ==
  IF LoadMetadata(dir, t) # ""
    THEN [res |-> NoResult(LoadMetadata(dir, t)), dir |-> dir]
  ELSE IF format = "raw_html"
    THEN [res |-> readRawHTML(dir, offset, limit), dir |-> dir]
  ELSE readText(dir, offset, limit, wbFile, wbMeta)

Prefix(x, n) == IF Len(x) > n THEN SubSeq(x, 1, n) ELSE x

\* mutant: the preview prefers the HTML converted on the fly
generatePreview_HTMLFirst(dir, maxLength, wbFile) ==
  LET t1 == readFileChunk(dir.text, 0, maxLength)
      t2 == readFileChunk(dir.converted, 0, maxLength)
  IN IF dir.HTMLBodySize > 0 /\ dir.html # NoFile
       THEN [preview |-> Prefix(ConvertHTMLToText(dir.html), maxLength),
             dir |-> IF wbFile THEN [dir EXCEPT !.converted = ConvertHTMLToText(dir.html)]
                     ELSE dir]
     ELSE IF dir.TextBodySize > 0 /\ t1.err = "" THEN [preview |-> t1.content, dir |-> dir]
     ELSE IF dir.ConvertedTextSize > 0 /\ t2.err = "" THEN [preview |-> t2.content, dir |-> dir]
     ELSE [preview |-> <<>>, dir |-> dir]

\* EmailCache.generatePreview: the preview and the directory it leaves
generatePreview(dir, maxLength, wbFile) ==
  LET t1 == readFileChunk(dir.text, 0, maxLength)
      t2 == readFileChunk(dir.converted, 0, maxLength)
  IN IF dir.TextBodySize > 0 /\ t1.err = "" THEN [preview |-> t1.content, dir |-> dir]
     ELSE IF dir.ConvertedTextSize > 0 /\ t2.err = "" THEN [preview |-> t2.content, dir |-> dir]
     ELSE IF dir.HTMLBodySize > 0 /\ dir.html # NoFile
       THEN [preview |-> Prefix(ConvertHTMLToText(dir.html), maxLength),
             dir |-> IF wbFile THEN [dir EXCEPT !.converted = ConvertHTMLToText(dir.html)]
                     ELSE dir]
     ELSE [preview |-> <<>>, dir |-> dir]

\* EmailCache.GetCacheInfo at time t
GetCacheInfoResult(dir, previewLength, t, wbFile) ==
  IF LoadMetadata(dir, t) # ""
    THEN [err |-> LoadMetadata(dir, t), TextSize |-> 0, HTMLSize |-> 0, Preview |-> <<>>,
          dir |-> dir]
    ELSE LET g == generatePreview(dir, previewLength, wbFile)
         IN [err |-> "", TextSize |-> dir.TextBodySize, HTMLSize |-> dir.HTMLBodySize,
             Preview |-> g.preview, dir |-> g.dir]

\* age: the time since the message was cached when the read ran, -1 when it
\* has no directory
NoRead == [op |-> "none", msg |-> "", age |-> -1, err |-> "", content |-> <<>>]

AgeOf(dir, t) == IF dir.present THEN t - dir.CachedAt ELSE -1

\* the outcomes of the write-backs matter only to a directory whose HTML is
\* converted on the fly
WriteBackOutcomes(dir) ==
  IF dir.present /\ dir.TextBodySize = 0 /\ dir.ConvertedTextSize = 0 /\ dir.HTMLBodySize > 0
    THEN BOOLEAN ELSE {TRUE}

ReadBody(m, format, offset, limit) ==
  \E wbFile, wbMeta \in WriteBackOutcomes(emails[m]) :
    LET r == ReadBodyResult(emails[m], format, offset, limit, now, wbFile, wbMeta)
    IN /\ r.res.err # "panic"
       /\ emails' = [emails EXCEPT ![m] = r.dir]
       /\ lastRead' = [op |-> "ReadBody", msg |-> m, age |-> AgeOf(emails[m], now), err |-> r.res.err,
                       content |-> r.res.Content]

GetCacheInfo(m, previewLength) ==
  \E wbFile \in WriteBackOutcomes(emails[m]) :
    LET r == GetCacheInfoResult(emails[m], previewLength, now, wbFile)
    IN /\ emails' = [emails EXCEPT ![m] = r.dir]
       /\ lastRead' = [op |-> "GetCacheInfo", msg |-> m, age |-> AgeOf(emails[m], now), err |-> r.err,
                       content |-> r.Preview]

CheckCached(m) ==
  /\ lastRead' = [op |-> "IsCached", msg |-> m, age |-> AgeOf(emails[m], now),
                  err |-> LoadMetadata(emails[m], now), content |-> <<>>]
  /\ UNCHANGED emails

CacheTick ==
  /\ \E d \in CacheTickSteps : now + d <= MaxCacheNow /\ now' = now + d
  /\ UNCHANGED <<Entries, TotalSize, files, last, emails, lastRead, rd, cfgVars, auxVars>>

InitCache ==
  /\ emails = [m \in MsgIDs |-> NoEmail]
  /\ lastRead = NoRead

NoSession == [active |-> FALSE]
InitNoSession == rd = NoSession

DoAddEntry ==
  /\ \E id \in IDs, ty \in Types, size \in Sizes : AddEntry(id, ty, size)
  /\ UNCHANGED <<now, emails, lastRead, rd, cfgVars, auxVars>>

DoGetEntry ==
  /\ \E id \in IDs : GetEntry(id)
  /\ UNCHANGED <<now, emails, lastRead, rd, cfgVars, auxVars>>

DoClearCache ==
  /\ ClearCache
  /\ UNCHANGED <<now, emails, lastRead, rd, cfgVars, auxVars>>

\* the operations of the email cache
DoSaveEmail ==
  /\ \E m \in MsgIDs, body \in Bodies, html \in HTMLBodies : SaveEmail(m, body, html)
  /\ UNCHANGED <<now, lastRead, rd, cfgVars, auxVars>>

DoReadBody ==
  /\ \E m \in MsgIDs, format \in Formats, offset \in 0..MaxOffset, limit \in 0..MaxLimit :
       ReadBody(m, format, offset, limit)
  /\ UNCHANGED <<now, Entries, TotalSize, files, last, rd, cfgVars, auxVars>>

DoGetCacheInfo ==
  /\ \E m \in MsgIDs, previewLength \in 0..MaxLimit : GetCacheInfo(m, previewLength)
  /\ UNCHANGED <<now, Entries, TotalSize, files, last, rd, cfgVars, auxVars>>

DoIsCached ==
  /\ \E m \in MsgIDs : CheckCached(m)
  /\ UNCHANGED <<now, Entries, TotalSize, files, last, rd, cfgVars, auxVars>>

\* ------------------------------------------------------------------------
\* Account identity records (metadata.yaml of an account folder)
\* ------------------------------------------------------------------------
\* a record that is missing or does not parse
NoMetadata == [valid |-> FALSE]

AccountMetadata(id, email, created, updated) ==
  [valid |-> TRUE, AccountID |-> id, EmailAddress |-> email, CreatedAt |-> created,
   UpdatedAt |-> updated]

\* mutant: the rewrite keeps the account id of the existing record
WriteAccountMetadata_KeepID(existing, accountID, emailAddress, t) ==
  AccountMetadata(IF existing.valid THEN existing.AccountID ELSE accountID, emailAddress,
                  IF existing.valid /\ existing.CreatedAt # 0 THEN existing.CreatedAt ELSE t, t)

\* WriteAccountMetadata: CreatedAt of a readable record with a non-zero
\* CreatedAt is preserved, else it is time.Now(); UpdatedAt is time.Now()
WriteAccountMetadata(existing, accountID, emailAddress, t) ==
  AccountMetadata(accountID, emailAddress,
                  IF existing.valid /\ existing.CreatedAt # 0 THEN existing.CreatedAt ELSE t, t)

\* ScanExistingFolders: the folders that hold a readable record
ScanExistingFolders(d) == {f \in DOMAIN d : d[f].meta.valid}

\* ------------------------------------------------------------------------
\* DetectMigrations
\* ------------------------------------------------------------------------
NoAccount == ""

\* emailToFolders[email]
emailToFolders(d, email) == {f \in ScanExistingFolders(d) : d[f].meta.EmailAddress = email}

\* the account ids the search "for accountID, email := range currentAccounts"
\* can stop at: the iteration order of the map is not fixed
MatchingAccountIDs(currentAccounts, email) ==
  {a \in DOMAIN currentAccounts : currentAccounts[a] = email}

\* one outcome of the search for every scanned folder
Searches(d, currentAccounts) ==
  {pick \in [ScanExistingFolders(d) -> AccountIDs \cup {NoAccount}] :
     \A f \in ScanExistingFolders(d) :
       LET ms == MatchingAccountIDs(currentAccounts, d[f].meta.EmailAddress)
       IN IF ms = {} THEN pick[f] = NoAccount ELSE pick[f] \in ms}

\* mutant: case 1 looks at the folder name only
AccountUnchanged_NameOnly(d, currentAccounts, f) == f = d[f].meta.AccountID

\* case 1: the folder name is the recorded account id and the account still
\* has the recorded email
AccountUnchanged(d, currentAccounts, f) ==
  /\ f = d[f].meta.AccountID
  /\ f \in DOMAIN currentAccounts
  /\ currentAccounts[f] = d[f].meta.EmailAddress

\* folderName == newestFolder: no other folder of the email has an UpdatedAt
\* that is After the folder's own
IsNewestFolder(d, f) ==
  \A g \in emailToFolders(d, d[f].meta.EmailAddress) :
    ~(d[g].meta.UpdatedAt > d[f].meta.UpdatedAt)

MigrationPlan(old, new, email) ==
  [OldFolderName |-> old, NewAccountID |-> new, EmailAddress |-> email]

\* the body of the loop over existingFolders
PlansForFolder(d, currentAccounts, f, matchingAccountID) ==
  IF AccountUnchanged(d, currentAccounts, f) THEN {}
  ELSE IF matchingAccountID = NoAccount \/ matchingAccountID = f THEN {}
  ELSE IF Cardinality(emailToFolders(d, d[f].meta.EmailAddress)) > 1 /\ ~IsNewestFolder(d, f)
    THEN {}
  ELSE {MigrationPlan(f, matchingAccountID, d[f].meta.EmailAddress)}

DetectMigrations(d, currentAccounts, pick) ==
  UNION {PlansForFolder(d, currentAccounts, f, pick[f]) : f \in ScanExistingFolders(d)}

\* every result DetectMigrations can return for the folders and the accounts
DetectOutcomes(d, currentAccounts) ==
  {DetectMigrations(d, currentAccounts, pick) : pick \in Searches(d, currentAccounts)}

\* ------------------------------------------------------------------------
\* ExecuteMigration, ExecuteAllMigrations
\* ------------------------------------------------------------------------
\* mutant: the folder arrives under its new name without its files
RenameFolder_Empty(d, old, new) ==
  [f \in (DOMAIN d \ {old}) \cup {new} |->
     IF f = new THEN [meta |-> d[old].meta, data |-> {}] ELSE d[f]]

\* os.Rename of a folder to a name that is free
RenameFolder(d, old, new) ==
  [f \in (DOMAIN d \ {old}) \cup {new} |-> IF f = new THEN d[old] ELSE d[f]]

\* what the file system does to the rewrite of metadata.yaml and to the
\* rollback rename: the write succeeds, fails leaving the file as it was, or
\* fails after os.WriteFile truncated it
WriteOK == [write |-> "ok", rollback |-> TRUE]
WriteFailures ==
  {[write |-> w, rollback |-> r] : w \in {"failed", "truncated"}, r \in BOOLEAN}

\* mutant: the destination is not checked and the rename replaces it
ExecuteMigration_NoTargetCheck(d, plan, t, io) ==
  IF plan.OldFolderName \notin DOMAIN d
    THEN [disk |-> d, err |-> "source folder does not exist"]
  ELSE LET renamed == RenameFolder(d, plan.OldFolderName, plan.NewAccountID)
       IN [disk |-> [renamed EXCEPT ![plan.NewAccountID].meta =
                       WriteAccountMetadata(@, plan.NewAccountID, plan.EmailAddress, t)],
           err |-> ""]

ExecuteMigration(d, plan, t, io) ==
  IF plan.OldFolderName \notin DOMAIN d
    THEN [disk |-> d, err |-> "source folder does not exist"]
  ELSE IF plan.NewAccountID \in DOMAIN d
    THEN [disk |-> d, err |-> "target folder already exists"]
  ELSE LET renamed == RenameFolder(d, plan.OldFolderName, plan.NewAccountID)
           existing == renamed[plan.NewAccountID].meta
       IN IF io.write = "ok"
            THEN [disk |-> [renamed EXCEPT ![plan.NewAccountID].meta =
                              WriteAccountMetadata(existing, plan.NewAccountID,
                                                   plan.EmailAddress, t)],
                  err |-> ""]
            ELSE LET left == IF io.write = "truncated"
                               THEN [renamed EXCEPT ![plan.NewAccountID].meta = NoMetadata]
                               ELSE renamed
                 IN IF io.rollback
                      THEN [disk |-> RenameFolder(left, plan.NewAccountID, plan.OldFolderName),
                            err |-> "failed to update metadata (rollback successful)"]
                      ELSE [disk |-> left,
                            err |-> "failed to update metadata and rollback failed"]

\* the plans in the order of the slice, one error per failed plan
RECURSIVE ExecuteAllMigrations(_, _, _, _)
\* mutant: the batch stops at the first plan that fails
ExecuteAllMigrations_StopAtFirst(d, migrations, t, ios) ==
  IF migrations = <<>> THEN [disk |-> d, errors |-> {}]
  ELSE LET r == ExecuteMigration(d, Head(migrations), t, ios[Head(migrations)])
       IN IF r.err # ""
            THEN [disk |-> r.disk, errors |-> {[plan |-> Head(migrations), err |-> r.err]}]
            ELSE ExecuteAllMigrations(r.disk, Tail(migrations), t, ios)

ExecuteAllMigrations(d, migrations, t, ios) ==
  IF migrations = <<>> THEN [disk |-> d, errors |-> {}]
  ELSE LET r == ExecuteMigration(d, Head(migrations), t, ios[Head(migrations)])
           rest == ExecuteAllMigrations(r.disk, Tail(migrations), t, ios)
       IN [disk |-> rest.disk,
           errors |-> rest.errors \cup
                      (IF r.err = "" THEN {} ELSE {[plan |-> Head(migrations), err |-> r.err]})]

\* the orders in which the slice can hold the plans
Orders(plans) ==
  {o \in [1..Cardinality(plans) -> plans] : \A i, j \in DOMAIN o : o[i] = o[j] => i = j}

\* ------------------------------------------------------------------------
\* LoadConfig
\* ------------------------------------------------------------------------
\* currentAccounts: account id -> email, at least one account
Configs ==
  {c \in UNION {[S -> EmailAddresses] : S \in SUBSET AccountIDs} :
     Cardinality(DOMAIN c) \in {1, 2}}

\* loadAccountConfig: os.MkdirAll of the account directories, then
\* WriteAccountMetadata
\* mutant: the record of an existing folder is written as a new record
loadAccountConfig_FreshRecord(d, accountID, email, t) ==
  IF accountID \in DOMAIN d
    THEN [d[accountID] EXCEPT !.meta = WriteAccountMetadata(NoMetadata, accountID, email, t)]
    ELSE [meta |-> WriteAccountMetadata(NoMetadata, accountID, email, t), data |-> {}]

loadAccountConfig(d, accountID, email, t) ==
  IF accountID \in DOMAIN d
    THEN [d[accountID] EXCEPT !.meta = WriteAccountMetadata(@, accountID, email, t)]
    ELSE [meta |-> WriteAccountMetadata(NoMetadata, accountID, email, t), data |-> {}]

\* the loop over accountIDs; the accounts in late are written after the clock
\* has advanced
LoadAccounts(d, currentAccounts, t, late) ==
  [f \in DOMAIN d \cup DOMAIN currentAccounts |->
     IF f \in DOMAIN currentAccounts
       THEN loadAccountConfig(d, f, currentAccounts[f], IF f \in late THEN t + 1 ELSE t)
       ELSE d[f]]

NoLoad ==
  [done |-> FALSE, accounts |-> <<>>, pre |-> <<>>, plans |-> {}, mid |-> <<>>, errors |-> {},
   post |-> <<>>, at |-> 0]

InitNoConfig ==
  /\ disk = <<>>
  /\ load = NoLoad

InitConfig ==
  /\ now = 1
  /\ disk = <<>>
  /\ load = NoLoad

LoadConfig(currentAccounts, pick, order, ios, late) ==
  /\ now + 1 <= MaxConfigNow
  /\ LET migrations == DetectMigrations(disk, currentAccounts, pick)
     IN /\ order \in Orders(migrations)
        /\ ios \in [migrations -> {WriteOK} \cup WriteFailures]
        /\ Cardinality({p \in migrations : ios[p] # WriteOK}) <= 1
        /\ LET ex == ExecuteAllMigrations(disk, order, now, ios)
           IN /\ disk' = LoadAccounts(ex.disk, currentAccounts, now, late)
              /\ load' = [done |-> TRUE, accounts |-> currentAccounts, pre |-> disk,
                          plans |-> migrations, mid |-> ex.disk, errors |-> ex.errors,
                          post |-> LoadAccounts(ex.disk, currentAccounts, now, late),
                          at |-> now]
  /\ now' = now + 2

\* an operation of a configured account that stores a file under its folder
\* (a draft, a cached message, an attachment); the file is named by its writer
StoreData(accountID) ==
  /\ load.done
  /\ accountID \in DOMAIN load.accounts
  /\ accountID \in DOMAIN disk
  /\ accountID \notin disk[accountID].data
  /\ disk' = [disk EXCEPT ![accountID].data = @ \cup {accountID}]
  /\ UNCHANGED <<now, load>>

DoLoadConfig ==
  /\ now + 1 <= MaxConfigNow
  /\ \E currentAccounts \in Configs :
       \E pick \in Searches(disk, currentAccounts) :
         LET migrations == DetectMigrations(disk, currentAccounts, pick)
         IN \E order \in Orders(migrations),
               ios \in [migrations -> {WriteOK} \cup WriteFailures],
               late \in {{}} \cup {{a} : a \in DOMAIN currentAccounts} :
              LoadConfig(currentAccounts, pick, order, ios, late)
  /\ UNCHANGED <<Entries, TotalSize, files, last, emails, lastRead, rd, auxVars>>

DoStoreData ==
  /\ \E accountID \in AccountIDs : StoreData(accountID)
  /\ UNCHANGED <<Entries, TotalSize, files, last, emails, lastRead, rd, auxVars>>

\* ------------------------------------------------------------------------
\* A caller that pages through the body of one cached message: it reads from
\* offset 0 with a fixed limit and advances the offset by the length of each
\* chunk until is_complete (read_email_body, README pagination example)
\* ------------------------------------------------------------------------
StartSession(m, body, html, format, limit) ==
  [active |-> TRUE, msg |-> m, body |-> body, html |-> html, format |-> format,
   limit |-> limit, offset |-> 0, acc |-> <<>>, done |-> FALSE, failed |-> FALSE,
   res |-> NoResult("")]

InitRead ==
  /\ InitNoConfig
  /\ now = 0
  /\ files = {}
  /\ lastRead = NoRead
  /\ \E m \in MsgIDs, body \in ReadBodies, html \in HTMLBodies, format \in Formats,
        limit \in 0..MaxReadLimit :
       LET dir == SaveEmailDir(NoEmail, body, html, 0)
           r == AddEntryResult(<<>>, 0, m, "email", SaveEmailSize(dir), 0)
       IN /\ emails = [x \in MsgIDs |-> IF x = m THEN dir ELSE NoEmail]
          /\ Entries = r.Entries
          /\ TotalSize = r.TotalSize
          /\ last = LastAdd(m, SaveEmailSize(dir), 0, r)
          /\ rd = StartSession(m, body, html, format, limit)

\* offset advances by the returned length
NextOffset(offset, content) == offset + Len(content)

ReadNext ==
  /\ rd.active /\ ~rd.done /\ ~rd.failed
  /\ LET r == ReadBodyResult(emails[rd.msg], rd.format, rd.offset, rd.limit, now, TRUE, TRUE)
     IN /\ emails' = [emails EXCEPT ![rd.msg] = r.dir]
        /\ lastRead' = [op |-> "ReadBody", msg |-> rd.msg, age |-> AgeOf(emails[rd.msg], now),
                        err |-> r.res.err, content |-> r.res.Content]
        /\ rd' = IF r.res.err # ""
                   THEN [rd EXCEPT !.failed = TRUE, !.res = r.res]
                   ELSE [rd EXCEPT !.acc = rd.acc \o r.res.Content,
                                   !.offset = NextOffset(rd.offset, r.res.Content),
                                   !.done = r.res.IsComplete,
                                   !.res = r.res]
  /\ UNCHANGED <<now, Entries, TotalSize, files, last, cfgVars, auxVars>>

\* ------------------------------------------------------------------------
\* One run of the server, statement by statement: main calls LoadConfig and
\* only then creates the Handler that serves the tools of the accounts
\* ------------------------------------------------------------------------
\* pc: the statement main is at; migrations: the plans ExecuteAllMigrations
\* has not executed yet; todo: the accounts the loop over accountIDs has not
\* loaded yet; loaded: the accounts loadAccountConfig has written; operated:
\* the accounts a tool has stored data for; renames: the folders renamed in
\* this run; late: a folder was renamed after an account was written or used
NoBoot ==
  [pc |-> "off", accounts |-> <<>>, migrations |-> <<>>, todo |-> {}, loaded |-> {},
   operated |-> {}, renames |-> 0, late |-> FALSE]

InitNoBoot == boot = NoBoot

InitBoot == boot = [NoBoot EXCEPT !.pc = "LoadConfig"]

\* LoadConfig: discoverAccountIDs, currentAccounts, DetectMigrations
MainDetectMigrations ==
  /\ boot.pc = "LoadConfig"
  /\ \E currentAccounts \in Configs :
       \E pick \in Searches(disk, currentAccounts) :
         \E order \in Orders(DetectMigrations(disk, currentAccounts, pick)) :
           boot' = [boot EXCEPT !.pc = "ExecuteAllMigrations",
                                !.accounts = currentAccounts,
                                !.migrations = order]
  /\ UNCHANGED <<now, disk>>

\* one iteration of the loop of ExecuteAllMigrations
MainExecuteMigration ==
  /\ boot.pc = "ExecuteAllMigrations"
  /\ boot.migrations # <<>>
  /\ \E io \in {WriteOK} \cup WriteFailures :
       LET r == ExecuteMigration(disk, Head(boot.migrations), now, io)
       IN /\ disk' = r.disk
          /\ boot' = [boot EXCEPT !.migrations = Tail(@),
                                  !.renames = IF r.disk # disk THEN @ + 1 ELSE @,
                                  !.late = @ \/ boot.loaded # {} \/ boot.operated # {}]
  /\ UNCHANGED now

\* mutant: the accounts are loaded while plans are still to be executed
LoopOverAccountsStarts_Early(b) ==
  b.pc = "ExecuteAllMigrations"

\* LoadConfig reaches the loop over accountIDs when ExecuteAllMigrations has
\* returned (or no plan was detected)
LoopOverAccountsStarts(b) ==
  b.pc = "ExecuteAllMigrations" /\ b.migrations = <<>>

MainStartAccounts ==
  /\ LoopOverAccountsStarts(boot)
  /\ boot' = [boot EXCEPT !.pc = "loadAccountConfig", !.todo = DOMAIN boot.accounts]
  /\ UNCHANGED <<now, disk>>

\* one iteration of the loop over accountIDs
MainLoadAccount ==
  /\ boot.pc = "loadAccountConfig"
  /\ \E accountID \in boot.todo :
       /\ disk' = [f \in DOMAIN disk \cup {accountID} |->
                     IF f = accountID
                       THEN loadAccountConfig(disk, accountID, boot.accounts[accountID], now)
                       ELSE disk[f]]
       /\ boot' = [boot EXCEPT !.todo = @ \ {accountID}, !.loaded = @ \cup {accountID}]
  /\ UNCHANGED now

\* LoadConfig returns; main creates the Handler and runs the server
MainRunServer ==
  /\ boot.pc = "loadAccountConfig"
  /\ boot.todo = {}
  /\ boot' = [boot EXCEPT !.pc = "Run"]
  /\ UNCHANGED <<now, disk>>

\* a tool call that stores a file under the folder of the account
CallTool(accountID) ==
  /\ boot.pc = "Run"
  /\ accountID \in DOMAIN boot.accounts
  /\ accountID \in DOMAIN disk
  /\ disk' = [disk EXCEPT ![accountID].data = @ \cup {accountID}]
  /\ boot' = [boot EXCEPT !.operated = @ \cup {accountID}]
  /\ UNCHANGED now

\* the server stops and is started again later
MainRestart ==
  /\ boot.pc = "Run"
  /\ now + 2 <= MaxConfigNow
  /\ now' = now + 2
  /\ boot' = [NoBoot EXCEPT !.pc = "LoadConfig"]
  /\ UNCHANGED disk

bootRest ==
  <<Entries, TotalSize, files, last, emails, lastRead, rd, load, thr, envs, cid, sideVars>>

DoMainDetectMigrations == MainDetectMigrations /\ UNCHANGED bootRest
DoMainExecuteMigration == MainExecuteMigration /\ UNCHANGED bootRest
DoMainStartAccounts == MainStartAccounts /\ UNCHANGED bootRest
DoMainLoadAccount == MainLoadAccount /\ UNCHANGED bootRest
DoMainRunServer == MainRunServer /\ UNCHANGED bootRest
DoCallTool == (\E accountID \in AccountIDs : CallTool(accountID)) /\ UNCHANGED bootRest
DoMainRestart == MainRestart /\ UNCHANGED bootRest

\* ------------------------------------------------------------------------
\* Goroutines (or processes) that call AddEntry, GetEntry and ClearCache on
\* the cache_metadata.yaml of one account: each call is LoadMetadata, a
\* change of the loaded copy, and SaveMetadata, and nothing in CacheManager
\* or in Handler.getAccountClients keeps two calls apart
\* ------------------------------------------------------------------------
Workers == {1, 2}
RaceSizes == {600}

IdleCall == [pc |-> "idle", op |-> "", id |-> "", size |-> 0, Entries |-> <<>>, TotalSize |-> 0]

\* g: the call each worker is in, with the metadata it has loaded; expected:
\* the ids the returned calls have left registered; twice: os.Remove was
\* called on a backing file that was already deleted
NoRace == [g |-> [w \in Workers |-> IdleCall], expected |-> {}, twice |-> FALSE]

InitNoRace == thr = <<>>

InitRace == thr = NoRace

\* the first statement of AddEntry, GetEntry and ClearCache; the caller of
\* AddEntry has written the backing file before
CacheManagerLoadMetadata(w, op, id, size) ==
  /\ thr.g[w].pc = "idle"
  /\ thr' = [thr EXCEPT !.g[w] = [pc |-> "loaded", op |-> op, id |-> id, size |-> size,
                                  Entries |-> Entries, TotalSize |-> TotalSize]]
  /\ files' = IF op = "AddEntry" THEN files \cup {id} ELSE files
  /\ UNCHANGED <<now, Entries, TotalSize, last>>

\* what the call does to the metadata it loaded
CallResult(c, t) ==
  IF c.op = "AddEntry"
    THEN LET r == AddEntryResult(c.Entries, c.TotalSize, c.id, "email", c.size, t)
         IN [save |-> TRUE, Entries |-> r.Entries, TotalSize |-> r.TotalSize,
             removed |-> r.removed]
  ELSE IF c.op = "GetEntry"
    THEN IF c.id \in EntryIDs(c.Entries)
           THEN [save |-> TRUE,
                 Entries |-> [c.Entries EXCEPT ![IndexOf(c.Entries, c.id)].AccessedAt = t],
                 TotalSize |-> c.TotalSize, removed |-> <<>>]
           ELSE [save |-> FALSE, Entries |-> c.Entries, TotalSize |-> c.TotalSize,
                 removed |-> <<>>]
  ELSE [save |-> TRUE, Entries |-> <<>>, TotalSize |-> 0, removed |-> PathsOf(c.Entries)]

\* the ids the call leaves registered, given those registered before it
ExpectedAfter(expected, c, r) ==
  IF c.op = "AddEntry" THEN (expected \cup {c.id}) \ Range(r.removed)
  ELSE IF c.op = "ClearCache" THEN {}
  ELSE expected

\* the rest of the call: the os.Remove calls and SaveMetadata
CacheManagerSaveMetadata(w) ==
  /\ thr.g[w].pc = "loaded"
  /\ LET c == thr.g[w]
         r == CallResult(c, now)
     IN /\ Entries' = IF r.save THEN r.Entries ELSE Entries
        /\ TotalSize' = IF r.save THEN r.TotalSize ELSE TotalSize
        /\ files' = RemoveAll(files, r.removed)
        /\ thr' = [thr EXCEPT !.g[w] = IdleCall,
                              !.expected = ExpectedAfter(@, c, r),
                              !.twice = @ \/ \E p \in Range(r.removed) : p \notin files]
  /\ UNCHANGED <<now, last>>

raceRest == <<emails, lastRead, rd, disk, load, boot, envs, cid, sideVars>>

DoCacheManagerLoadMetadata ==
  /\ \E w \in Workers, op \in {"AddEntry", "GetEntry", "ClearCache"}, id \in IDs,
        size \in RaceSizes :
       CacheManagerLoadMetadata(w, op, id, size)
  /\ UNCHANGED raceRest

DoCacheManagerSaveMetadata ==
  /\ \E w \in Workers : CacheManagerSaveMetadata(w)
  /\ UNCHANGED raceRest

\* ------------------------------------------------------------------------
\* The metadata.yaml of a cached email: CachedEmailMetadata built by
\* SaveEmail, written with yaml.Marshal and read with yaml.Unmarshal
\* ------------------------------------------------------------------------
\* a Go slice: nil or not, and its elements
NilSlice == [nil |-> TRUE, elems |-> <<>>]
Slice(s) == [nil |-> FALSE, elems |-> s]

\* email.Attachment values
Attachment(filename, size, contentType, cacheID) ==
  [Filename |-> filename, Size |-> size, ContentType |-> contentType, CacheID |-> cacheID]

\* the envelopes of the emails handed to SaveEmail
Envelope(from, to, cc, subject, date, inReplyTo, references, attachments) ==
  [From |-> from, To |-> to, CC |-> cc, Subject |-> subject, Date |-> date,
   InReplyTo |-> inReplyTo, References |-> references, Attachments |-> attachments]

Envelopes ==
  { Envelope("", NilSlice, NilSlice, "", 0, "", NilSlice, NilSlice),
    Envelope("f", Slice(<<>>), Slice(<<>>), "s", 7, "", Slice(<<>>), Slice(<<>>)),
    Envelope("f", Slice(<<"t">>), NilSlice, "s", 7, "r", Slice(<<"r">>),
             Slice(<<Attachment("n", 0, "", "")>>)),
    Envelope("f", Slice(<<"t", "u">>), Slice(<<"c">>), "", 7, "r", Slice(<<"q", "r">>),
             Slice(<<Attachment("n", 3, "ty", "id"), Attachment("", 0, "ty", "")>>)) }

\* mutant: the reply-chain references are not copied into the metadata
NewMetadata_NoReferences(m, accountID, folder, env, dir) ==
  [MessageID |-> m, AccountID |-> accountID, Folder |-> folder, From |-> env.From,
   To |-> env.To, CC |-> env.CC, Subject |-> env.Subject, Date |-> env.Date,
   InReplyTo |-> env.InReplyTo, References |-> NilSlice,
   Attachments |-> env.Attachments, CachedAt |-> dir.CachedAt,
   TextBodySize |-> dir.TextBodySize, HTMLBodySize |-> dir.HTMLBodySize,
   ConvertedTextSize |-> dir.ConvertedTextSize]

\* metadata := &CachedEmailMetadata{...}, with the sizes SaveEmail computes
NewMetadata(m, accountID, folder, env, dir) ==
  [MessageID |-> m, AccountID |-> accountID, Folder |-> folder, From |-> env.From,
   To |-> env.To, CC |-> env.CC, Subject |-> env.Subject, Date |-> env.Date,
   InReplyTo |-> env.InReplyTo, References |-> env.References,
   Attachments |-> env.Attachments, CachedAt |-> dir.CachedAt,
   TextBodySize |-> dir.TextBodySize, HTMLBodySize |-> dir.HTMLBodySize,
   ConvertedTextSize |-> dir.ConvertedTextSize]

\* the fields by Go type, and those tagged omitempty
SliceFields == {"To", "CC", "References", "Attachments"}
StringFields == {"MessageID", "AccountID", "Folder", "From", "Subject", "InReplyTo"}
OmitEmptyFields == {"CC", "InReplyTo", "References", "Attachments", "ConvertedTextSize"}
AttachmentOmitEmpty == {"ContentType", "CacheID"}

\* the zero value of a field
ZeroValue(k) ==
  IF k \in SliceFields THEN NilSlice ELSE IF k \in StringFields THEN "" ELSE 0

\* omitempty: a zero number or time, or a string or slice of length 0
IsEmptyValue(k, v) ==
  IF k \in SliceFields THEN v.elems = <<>> ELSE v = ZeroValue(k)

\* yaml.Marshal of one attachment and of the metadata: a mapping that holds
\* the fields that are not omitted; a slice is written as a sequence
MarshalAttachment(a) ==
  [k \in {x \in DOMAIN a : ~(x \in AttachmentOmitEmpty /\ a[x] = "")} |-> a[k]]

MarshalValue(k, v) ==
  IF k = "Attachments" THEN [i \in DOMAIN v.elems |-> MarshalAttachment(v.elems[i])]
  ELSE IF k \in SliceFields THEN v.elems
  ELSE v

Marshal(meta) ==
  [k \in {x \in DOMAIN meta : ~(x \in OmitEmptyFields /\ IsEmptyValue(x, meta[x]))} |->
     MarshalValue(k, meta[k])]

\* yaml.Unmarshal into a zero CachedEmailMetadata: a field that the mapping
\* does not hold keeps its zero value
UnmarshalAttachment(d) ==
  [k \in {"Filename", "Size", "ContentType", "CacheID"} |->
     IF k \in DOMAIN d THEN d[k] ELSE IF k = "Size" THEN 0 ELSE ""]

UnmarshalValue(k, d) ==
  IF k = "Attachments" THEN Slice([i \in DOMAIN d |-> UnmarshalAttachment(d[i])])
  ELSE IF k \in SliceFields THEN Slice(d)
  ELSE d

MetadataFields ==
  {"MessageID", "AccountID", "Folder", "From", "To", "CC", "Subject", "Date", "InReplyTo",
   "References", "Attachments", "CachedAt", "TextBodySize", "HTMLBodySize",
   "ConvertedTextSize"}

Unmarshal(doc) ==
  [k \in MetadataFields |->
     IF k \in DOMAIN doc THEN UnmarshalValue(k, doc[k]) ELSE ZeroValue(k)]

\* docs: the metadata.yaml of each email directory; wrote: the email the
\* last SaveEmail of the message was given; read: the last LoadMetadata
NoDoc == <<>>
NoWrite == [present |-> FALSE]
NoLoadMetadata == [done |-> FALSE]
NoEnvs ==
  [docs |-> [m \in MsgIDs |-> NoDoc], wrote |-> [m \in MsgIDs |-> NoWrite],
   read |-> NoLoadMetadata]

InitNoEnvs == envs = <<>>

InitEnvs == envs = NoEnvs

\* EmailCache.SaveEmail with the envelope of the email
SaveEmailEnvelope(m, env, body, html) ==
  /\ SaveEmail(m, body, html)
  /\ LET dir == SaveEmailDir(emails[m], body, html, now)
     IN envs' = [envs EXCEPT
                   !.docs[m] = Marshal(NewMetadata(m, "A", "INBOX", env, dir)),
                   !.wrote[m] = [present |-> TRUE, env |-> env, body |-> body, html |-> html,
                                 converted |-> IF dir.ConvertedTextSize > 0
                                                 THEN ConvertHTMLToText(html) ELSE <<>>],
                   !.read = NoLoadMetadata]
  /\ UNCHANGED <<now, lastRead>>

\* EmailCache.LoadMetadata with the metadata it returns
LoadMetadataEnvelope(m) ==
  /\ envs' = [envs EXCEPT
                !.read = IF LoadMetadata(emails[m], now) = ""
                           THEN [done |-> TRUE, msg |-> m, err |-> "",
                                 age |-> AgeOf(emails[m], now),
                                 meta |-> Unmarshal(envs.docs[m])]
                           ELSE [done |-> TRUE, msg |-> m,
                                 err |-> LoadMetadata(emails[m], now)]]
  /\ UNCHANGED <<now, Entries, TotalSize, files, last, emails, lastRead>>

envRest == <<rd, disk, load, boot, thr, cid, sideVars>>

DoSaveEmailEnvelope ==
  /\ \E m \in MsgIDs, env \in Envelopes, body \in Bodies, html \in HTMLBodies :
       SaveEmailEnvelope(m, env, body, html)
  /\ UNCHANGED envRest

DoLoadMetadataEnvelope ==
  /\ \E m \in MsgIDs : LoadMetadataEnvelope(m)
  /\ UNCHANGED envRest

EnvelopeTick ==
  /\ \E d \in CacheTickSteps : now + d <= MaxCacheNow /\ now' = now + d
  /\ UNCHANGED <<Entries, TotalSize, files, last, emails, lastRead, envs>>
  /\ UNCHANGED envRest

\* ------------------------------------------------------------------------
\* The cache id derived from a Message-ID: EmailCache.generateCacheID names
\* the directory of a cached email, Storage.generateEmailCacheID names the
\* msg_{id}.yaml file of Storage.SaveEmail. Strings are sequences of
\* characters.
\* ------------------------------------------------------------------------
Chars == {"<", ">", "@", ".", "/", "\\", "a"}

\* the message ids: a few characters followed by a run of "a"
MessageID(core, n) == core \o [i \in 1..n |-> "a"]

CoreIDs == UNION {[1..k -> Chars] : k \in 0..MaxCoreLen}

\* strings.Trim(s, cutset): the leading and trailing characters of cutset
\* are removed
RECURSIVE TrimLeftSet(_, _)
TrimLeftSet(s, cutset) ==
  IF s # <<>> /\ Head(s) \in cutset THEN TrimLeftSet(Tail(s), cutset) ELSE s

RECURSIVE TrimRightSet(_, _)
TrimRightSet(s, cutset) ==
  IF s # <<>> /\ s[Len(s)] \in cutset
    THEN TrimRightSet(SubSeq(s, 1, Len(s) - 1), cutset)
    ELSE s

Trim(s, cutset) == TrimRightSet(TrimLeftSet(s, cutset), cutset)

\* strings.ReplaceAll(s, old, new) for a single character old
RECURSIVE ReplaceAll(_, _, _)
ReplaceAll(s, old, new) ==
  IF s = <<>> THEN <<>>
  ELSE (IF Head(s) = old THEN new ELSE <<Head(s)>>) \o ReplaceAll(Tail(s), old, new)

\* fmt.Sprintf("%x", h.Sum(nil)) of an MD5 sum: HashWidth hexadecimal digits
\* (which digits is left open: only the alphabet and the width are used)
md5Hex(messageID) == [i \in 1..HashWidth |-> "0"]

\* if len(clean) > 50
TooLong(clean) == Len(clean) > MaxCacheIDLen

\* the id after the replacements of EmailCache.generateCacheID
cleanCacheID(messageID) ==
  ReplaceAll(ReplaceAll(ReplaceAll(ReplaceAll(Trim(messageID, {"<", ">"}),
    "@", <<"_", "a", "t", "_">>), ".", <<"_">>), "/", <<"_">>), "\\", <<"_">>)

generateCacheID(messageID) ==
  IF TooLong(cleanCacheID(messageID)) THEN md5Hex(messageID) ELSE cleanCacheID(messageID)

\* the id after the replacements of Storage.generateEmailCacheID
cleanEmailCacheID(messageID) ==
  ReplaceAll(ReplaceAll(Trim(messageID, {"<", ">"}), "@", <<"_", "a", "t", "_">>),
             ".", <<"_">>)

generateEmailCacheID(messageID) ==
  IF TooLong(cleanEmailCacheID(messageID))
    THEN md5Hex(messageID)
    ELSE cleanEmailCacheID(messageID)

\* the elements of a relative path, as filepath.Join and Clean see them:
\* the name is cut at each separator and empty elements are dropped (no
\* element is "." or "..": every "." has been replaced)
RECURSIVE PathElements(_, _)
PathElements(name, cur) ==
  IF name = <<>> THEN (IF cur = <<>> THEN <<>> ELSE <<cur>>)
  ELSE IF Head(name) = "/"
    THEN (IF cur = <<>> THEN <<>> ELSE <<cur>>) \o PathElements(Tail(name), <<>>)
    ELSE PathElements(Tail(name), Append(cur, Head(name)))

\* filepath.Join(ec.cacheDir, cacheID), relative to the emails directory
getEmailDir(messageID) == PathElements(generateCacheID(messageID), <<>>)

\* filepath.Join(s.emailCacheDir, "msg_" + cacheID + ".yaml"), relative to
\* the emails directory
emailFilePath(messageID) ==
  PathElements(<<"m", "s", "g", "_">> \o generateEmailCacheID(messageID)
                 \o <<".", "y", "a", "m", "l">>, <<>>)

NotDerived == [done |-> FALSE]
NoCacheID == <<>>

InitNoCacheID == cid = NoCacheID

\* the handlers reject an empty message_id
InitCacheID ==
  \E core \in CoreIDs, n \in PadLengths :
    /\ MessageID(core, n) # <<>>
    /\ cid = [messageID |-> MessageID(core, n), dir |-> NotDerived, file |-> NotDerived]

\* EmailCache.SaveEmail or LoadMetadata derives the directory of the message
GetEmailDir ==
  /\ ~cid.dir.done
  /\ cid' = [cid EXCEPT !.dir = [done |-> TRUE,
                                 clean |-> cleanCacheID(cid.messageID),
                                 id |-> generateCacheID(cid.messageID),
                                 path |-> getEmailDir(cid.messageID)]]

\* Storage.SaveEmail or LoadEmail derives the file of the message
GetEmailFile ==
  /\ ~cid.file.done
  /\ cid' = [cid EXCEPT !.file = [done |-> TRUE,
                                  clean |-> cleanEmailCacheID(cid.messageID),
                                  id |-> generateEmailCacheID(cid.messageID),
                                  path |-> emailFilePath(cid.messageID)]]

cidRest == <<now, Entries, TotalSize, files, last, emails, lastRead, rd, disk, load,
             boot, thr, envs, sideVars>>

DoGetEmailDir == GetEmailDir /\ UNCHANGED cidRest
DoGetEmailFile == GetEmailFile /\ UNCHANGED cidRest

\* ------------------------------------------------------------------------
\* ScanExistingFolders over the entries of FILES_ROOT: plain files and
\* directories, the directories with or without a metadata.yaml
\* ------------------------------------------------------------------------
\* metadata.yaml of a directory: not there, not YAML of the record type, or
\* a YAML document; an empty file is a document that sets no field
MissingFile == [kind |-> "missing"]
UnparsableFile == [kind |-> "unparsable"]
YAMLFile(metadata) == [kind |-> "yaml", doc |-> metadata]
EmptyFile == YAMLFile(AccountMetadata("", "", 0, 0))

PlainFile == [dir |-> FALSE]
Directory(file) == [dir |-> TRUE, file |-> file]

NoRoot == [exists |-> FALSE, entries |-> <<>>]

\* ReadAccountMetadata: os.ReadFile, then yaml.Unmarshal
ReadAccountMetadata(file) ==
  IF file.kind = "missing" THEN [err |-> "metadata file not found", metadata |-> NoMetadata]
  ELSE IF file.kind = "unparsable"
    THEN [err |-> "failed to parse metadata", metadata |-> NoMetadata]
  ELSE [err |-> "", metadata |-> file.doc]

\* the entries of root that are directories
SubDirs(root) == {f \in DOMAIN root.entries : root.entries[f].dir}

\* mutant: a directory without a readable record makes the scan fail
ScanExistingFoldersAt_Strict(root, readDirOK) ==
  IF ~root.exists THEN [err |-> "", folders |-> <<>>]
  ELSE IF ~readDirOK \/ \E f \in SubDirs(root) :
                          ReadAccountMetadata(root.entries[f].file).err # ""
    THEN [err |-> "failed to read filesRoot directory", folders |-> <<>>]
  ELSE [err |-> "",
        folders |-> [f \in SubDirs(root) |-> ReadAccountMetadata(root.entries[f].file).metadata]]

\* ScanExistingFolders(filesRoot): folder name -> record
ScanExistingFoldersAt(root, readDirOK) ==
  IF ~root.exists THEN [err |-> "", folders |-> <<>>]
  ELSE IF ~readDirOK THEN [err |-> "failed to read filesRoot directory", folders |-> <<>>]
  ELSE [err |-> "",
        folders |-> [f \in {d \in SubDirs(root) :
                              ReadAccountMetadata(root.entries[d].file).err = ""} |->
                       ReadAccountMetadata(root.entries[f].file).metadata]]

NoScan == [root |-> NoRoot, last |-> [op |-> "none"]]
InitNoScan == scan = NoScan

\* loadAccountConfig: os.MkdirAll of the account's directories
ScanMkdirAll(f) ==
  /\ f \notin DOMAIN scan.root.entries
  /\ scan' = [scan EXCEPT !.root =
                [exists |-> TRUE,
                 entries |-> [g \in DOMAIN scan.root.entries \cup {f} |->
                                IF g = f THEN Directory(MissingFile)
                                ELSE scan.root.entries[g]]]]

\* WriteAccountMetadata(root/f/metadata.yaml, accountID, emailAddress)
ScanWriteAccountMetadata(f, accountID, emailAddress) ==
  /\ f \in SubDirs(scan.root)
  /\ scan' = [scan EXCEPT !.root.entries[f].file =
                YAMLFile(WriteAccountMetadata(ReadAccountMetadata(@).metadata, accountID,
                                              emailAddress, now))]

\* metadata.yaml is removed, left with text that is not the record, or left
\* empty (os.WriteFile that fails after truncating it)
DamagedFiles == {MissingFile, UnparsableFile, EmptyFile}
ScanDamage(f, file) ==
  /\ f \in SubDirs(scan.root)
  /\ scan.root.entries[f].file.kind = "yaml"
  /\ scan' = [scan EXCEPT !.root.entries[f].file = file]

\* a plain file directly under the root
ScanStrayFile(f) ==
  /\ scan.root.exists
  /\ f \notin DOMAIN scan.root.entries
  /\ scan' = [scan EXCEPT !.root.entries =
                [g \in DOMAIN scan.root.entries \cup {f} |->
                   IF g = f THEN PlainFile ELSE scan.root.entries[g]]]

\* one call of ScanExistingFolders, recorded with the root it ran on
CallScanExistingFolders(readDirOK) ==
  scan' = [scan EXCEPT !.last = [op |-> "ScanExistingFolders", pre |-> scan.root,
                                 readDirOK |-> readDirOK,
                                 res |-> ScanExistingFoldersAt(scan.root, readDirOK)]]

scanRest == <<now, Entries, TotalSize, files, last, emails, lastRead, rd, cfgVars,
              boot, thr, envs, cid, hnd, environ>>

DoScanMkdirAll == (\E f \in FolderNames : ScanMkdirAll(f)) /\ UNCHANGED scanRest
DoScanWriteAccountMetadata ==
  /\ \E f \in FolderNames, accountID \in FolderNames, emailAddress \in EmailAddresses :
       ScanWriteAccountMetadata(f, accountID, emailAddress)
  /\ UNCHANGED scanRest
DoScanDamage ==
  /\ \E f \in FolderNames, file \in DamagedFiles : ScanDamage(f, file)
  /\ UNCHANGED scanRest
DoScanStrayFile == (\E f \in FolderNames : ScanStrayFile(f)) /\ UNCHANGED scanRest
DoCallScanExistingFolders ==
  /\ \E readDirOK \in BOOLEAN : CallScanExistingFolders(readDirOK)
  /\ UNCHANGED scanRest

\* ------------------------------------------------------------------------
\* The handler of the tools: the account a call is for, the clients it
\* creates on first use and the folder FILES_ROOT/<account id> it works on
\* ------------------------------------------------------------------------
\* the accounts of the environment: ACCOUNT_A_EMAIL=x, ACCOUNT_B_EMAIL=y
AccountEmail(accountID) == IF accountID = "A" THEN "x" ELSE "y"

\* MultiAccountConfig as LoadConfig returns it: at least one account and a
\* default account that is one of them
HandlerConfigs ==
  {c \in [Accounts : (SUBSET ConfiguredIDs) \ {{}}, DefaultAccountID : ConfiguredIDs] :
     c.DefaultAccountID \in c.Accounts}

\* account_id as a tool call passes it: left out, or any string
RequestedIDs == {""} \cup AccountIDs

\* mutant: the storage of every account is rooted at the first account
accountRoot_Shared(accountID) == "A"

\* accountRoot := filepath.Join(filesRoot, accountID), the key of the folder
accountRoot(accountID) == accountID

NoAccountFolder ==
  [exists |-> FALSE, meta |-> NoMetadata, drafts |-> {}, emails |-> {}, ledger |-> {}]

\* AccountConfig: the id and the files root its DraftsDir is derived from
AccountConfig(accountID) == [AccountID |-> accountID, root |-> accountRoot(accountID)]
NoAccountConfig == [AccountID |-> NoAccount, root |-> NoAccount]

\* Handler.resolveAccountID
resolveAccountID(config, requestedID) ==
  IF requestedID = "" THEN config.DefaultAccountID ELSE requestedID

\* mutant: an account id that is not configured is served by the default
GetAccount_Fallback(config, accountID) ==
  LET id == IF accountID = "" \/ accountID \notin config.Accounts
              THEN config.DefaultAccountID ELSE accountID
  IN [err |-> "", acct |-> AccountConfig(id)]

\* MultiAccountConfig.GetAccount
GetAccount(config, accountID) ==
  LET id == IF accountID = "" THEN config.DefaultAccountID ELSE accountID
  IN IF id \in config.Accounts
       THEN [err |-> "", acct |-> AccountConfig(id)]
       ELSE [err |-> "account not found", acct |-> NoAccountConfig]

\* os.MkdirAll of the drafts and cache directories under a files root
MkdirAllUnder(folders, root) == [folders EXCEPT ![root].exists = TRUE]

\* Handler.getAccountClients: the clients of the account are created on the
\* first call (NewStorage creates the directories of its files root)
getAccountClients(h, accountID) ==
  LET id == resolveAccountID(h.config, accountID)
      r == GetAccount(h.config, id)
  IN IF r.err # "" THEN [err |-> r.err, acct |-> r.acct, h |-> h]
     ELSE IF id \in h.clients THEN [err |-> "", acct |-> r.acct, h |-> h]
     ELSE [err |-> "", acct |-> r.acct,
           h |-> [h EXCEPT !.clients = @ \cup {id},
                           !.folders = MkdirAllUnder(@, r.acct.root)]]

\* Handler.getEmailCache: the email cache of the account, created on the
\* first call on the files root of the account
getEmailCache(h, accountID) ==
  LET r == getAccountClients(h, accountID)
  IN IF r.err # "" THEN r
     ELSE [r EXCEPT !.h.emailCaches = @ \cup {resolveAccountID(h.config, accountID)},
                    !.h.folders = MkdirAllUnder(@, r.acct.root)]

NoHandler ==
  [config |-> [Accounts |-> {}, DefaultAccountID |-> NoAccount], todo |-> {}, clients |-> {},
   emailCaches |-> {}, folders |-> [a \in AccountIDs |-> NoAccountFolder],
   last |-> [op |-> "none"]]
InitNoHandler == hnd = NoHandler

\* the handler is created with the configuration; LoadConfig is about to
\* load the accounts
InitHandler ==
  \E config \in HandlerConfigs : hnd = [NoHandler EXCEPT !.config = config, !.todo = config.Accounts]

\* what a call leaves in hnd.last
ToolCall(op, requested, r, err) ==
  [op |-> op, requested |-> requested, acct |-> r.acct.AccountID, err |-> err,
   pre |-> [clients |-> hnd.clients, emailCaches |-> hnd.emailCaches, folders |-> hnd.folders]]

\* loadAccountConfig(accountID, filesRoot) in the loop of LoadConfig: the
\* directories of the account and its identity record
StartLoadAccount(accountID) ==
  /\ accountID \in hnd.todo
  /\ hnd' = [hnd EXCEPT
       !.todo = @ \ {accountID},
       !.folders[accountRoot(accountID)].exists = TRUE,
       !.folders[accountRoot(accountID)].meta =
          AccountMetadata(accountID, AccountEmail(accountID), 1, 1),
       !.last = ToolCall("loadAccountConfig", accountID,
                         [acct |-> AccountConfig(accountID)], "")]

\* handleFetchEmail: the message is fetched and saved unless it is cached
ToolFetchEmail(requested, messageID, fetched) ==
  /\ hnd.todo = {}
  /\ LET r == getEmailCache(hnd, requested)
         root == r.acct.root
     IN hnd' =
          IF r.err # "" THEN [hnd EXCEPT !.last = ToolCall("fetch_email", requested, r, r.err)]
          ELSE IF messageID \in r.h.folders[root].emails
            THEN [r.h EXCEPT !.last = ToolCall("fetch_email", requested, r, "")]
          ELSE IF ~fetched
            THEN [r.h EXCEPT !.last = ToolCall("fetch_email", requested, r,
                                               "failed to fetch email")]
          ELSE [r.h EXCEPT !.folders[root].emails = @ \cup {messageID},
                           !.folders[root].ledger = @ \cup {messageID},
                           !.last = ToolCall("fetch_email", requested, r, "")]

\* handleReadEmailBody: served from the email cache of the account
ToolReadEmailBody(requested, messageID) ==
  /\ hnd.todo = {}
  /\ LET r == getEmailCache(hnd, requested)
     IN hnd' =
          IF r.err # "" THEN [hnd EXCEPT !.last = ToolCall("read_email_body", requested, r, r.err)]
          ELSE [r.h EXCEPT !.last =
                  ToolCall("read_email_body", requested, r,
                           IF messageID \in r.h.folders[r.acct.root].emails THEN ""
                           ELSE "email not in cache. Call fetch_email first")]

\* create_draft: Storage.SaveDraft on the storage of the account
ToolCreateDraft(requested, draftID) ==
  /\ hnd.todo = {}
  /\ LET r == getAccountClients(hnd, requested)
     IN /\ r.err = "" => draftID \notin r.h.folders[r.acct.root].drafts
        /\ hnd' =
             IF r.err # "" THEN [hnd EXCEPT !.last = ToolCall("create_draft", requested, r, r.err)]
             ELSE [r.h EXCEPT !.folders[r.acct.root].drafts = @ \cup {draftID},
                              !.last = ToolCall("create_draft", requested, r, "")]

\* delete_draft: Storage.DeleteDraft on the storage of the account
ToolDeleteDraft(requested, draftID) ==
  /\ hnd.todo = {}
  /\ LET r == getAccountClients(hnd, requested)
     IN hnd' =
          IF r.err # "" THEN [hnd EXCEPT !.last = ToolCall("delete_draft", requested, r, r.err)]
          ELSE IF draftID \notin r.h.folders[r.acct.root].drafts
            THEN [r.h EXCEPT !.last = ToolCall("delete_draft", requested, r, "draft not found")]
          ELSE [r.h EXCEPT !.folders[r.acct.root].drafts = @ \ {draftID},
                           !.last = ToolCall("delete_draft", requested, r, "")]

hndRest == <<now, Entries, TotalSize, files, last, emails, lastRead, rd, cfgVars,
             boot, thr, envs, cid, scan, environ>>

DoStartLoadAccount == (\E a \in ConfiguredIDs : StartLoadAccount(a)) /\ UNCHANGED hndRest
DoToolFetchEmail ==
  /\ \E requested \in RequestedIDs, m \in MsgIDs, fetched \in BOOLEAN :
       ToolFetchEmail(requested, m, fetched)
  /\ UNCHANGED hndRest
DoToolReadEmailBody ==
  /\ \E requested \in RequestedIDs, m \in MsgIDs : ToolReadEmailBody(requested, m)
  /\ UNCHANGED hndRest
DoToolCreateDraft ==
  /\ \E requested \in RequestedIDs, d \in DraftIDs : ToolCreateDraft(requested, d)
  /\ UNCHANGED hndRest
DoToolDeleteDraft ==
  /\ \E requested \in RequestedIDs, d \in DraftIDs : ToolDeleteDraft(requested, d)
  /\ UNCHANGED hndRest

\* ------------------------------------------------------------------------
\* LoadConfig over the environment variables of the process
\* ------------------------------------------------------------------------
\* an environment variable: not set, or set to a value (which may be "")
Unset == [set |-> FALSE, value |-> ""]
SetTo(value) == [set |-> TRUE, value |-> value]
Getenv(var) == var.value

\* the environment: ACCOUNT_<id>_EMAIL, ACCOUNT_<id>_PASSWORD per account
\* id, and DEFAULT_ACCOUNT_ID
NoEnvironment ==
  [EMAIL |-> [a \in ConfiguredIDs |-> Unset], PASSWORD |-> [a \in ConfiguredIDs |-> Unset],
   DEFAULT_ACCOUNT_ID |-> Unset]

\* discoverAccountIDs: the ids of the keys ACCOUNT_<id>_EMAIL of os.Environ
discoverAccountIDs(e) == {a \in DOMAIN e.EMAIL : e.EMAIL[a].set}

\* loadAccountConfig fails without an email address or a password
loadAccountConfigErr(e, accountID) ==
  IF Getenv(e.EMAIL[accountID]) = "" THEN "missing EMAIL"
  ELSE IF Getenv(e.PASSWORD[accountID]) = "" THEN "missing PASSWORD"
  ELSE ""

NoConfigLoaded == [err |-> "", Accounts |-> {}, DefaultAccountID |-> NoAccount, loaded |-> {}]
FailedLoad(err, loaded) == [NoConfigLoaded EXCEPT !.err = err, !.loaded = loaded]

\* if len(accountIDs) == 0 { return nil, fmt.Errorf(...) }
NoAccountsErr(accountIDs) ==
  IF accountIDs = {} THEN "no email accounts configured" ELSE ""

\* the default account: DEFAULT_ACCOUNT_ID is required and has to be one of
\* the loaded accounts
DefaultAccountErr(e, accountIDs) ==
  IF Getenv(e.DEFAULT_ACCOUNT_ID) = ""
    THEN "DEFAULT_ACCOUNT_ID environment variable is required"
  ELSE IF Getenv(e.DEFAULT_ACCOUNT_ID) \notin accountIDs
    THEN "default account not found in configured accounts"
  ELSE ""

\* LoadConfig() on the environment e; the accounts are loaded in the order
\* of a map iteration, before is the set of accounts the loop reaches
\* before the first one that fails; loaded are the accounts whose
\* directories and identity record have been written
LoadConfigEnv(e, before) ==
  LET accountIDs == discoverAccountIDs(e)
      failing == {a \in accountIDs : loadAccountConfigErr(e, a) # ""}
  IN IF NoAccountsErr(accountIDs) # "" THEN FailedLoad(NoAccountsErr(accountIDs), {})
     ELSE IF failing # {} THEN FailedLoad("failed to load account", before \ failing)
     ELSE IF DefaultAccountErr(e, accountIDs) # ""
       THEN FailedLoad(DefaultAccountErr(e, accountIDs), accountIDs)
     ELSE [err |-> "", Accounts |-> accountIDs,
           DefaultAccountID |-> Getenv(e.DEFAULT_ACCOUNT_ID), loaded |-> accountIDs]

NoEnv == [vars |-> NoEnvironment, last |-> [op |-> "none"]]
InitNoEnv == environ = NoEnv

\* os.Setenv and os.Unsetenv before the process starts
EnvValues == {Unset, SetTo(""), SetTo("x")}
DefaultValues == {Unset} \cup {SetTo(a) : a \in AccountIDs}

SetAccountEmail(accountID, var) ==
  /\ environ.vars.EMAIL[accountID] # var
  /\ environ' = [environ EXCEPT !.vars.EMAIL[accountID] = var]

SetAccountPassword(accountID, var) ==
  /\ environ.vars.PASSWORD[accountID] # var
  /\ environ' = [environ EXCEPT !.vars.PASSWORD[accountID] = var]

SetDefaultAccountID(var) ==
  /\ environ.vars.DEFAULT_ACCOUNT_ID # var
  /\ environ' = [environ EXCEPT !.vars.DEFAULT_ACCOUNT_ID = var]

\* one start of the process: LoadConfig on the environment as it is
CallLoadConfig(before) ==
  environ' = [environ EXCEPT !.last = [op |-> "LoadConfig", pre |-> environ.vars,
                               res |-> LoadConfigEnv(environ.vars, before)]]

envVarRest == <<now, Entries, TotalSize, files, last, emails, lastRead, rd, cfgVars,
                boot, thr, envs, cid, scan, hnd>>

DoSetAccountEmail ==
  /\ \E a \in ConfiguredIDs, var \in EnvValues : SetAccountEmail(a, var)
  /\ UNCHANGED envVarRest
DoSetAccountPassword ==
  /\ \E a \in ConfiguredIDs, var \in {Unset, SetTo("x")} : SetAccountPassword(a, var)
  /\ UNCHANGED envVarRest
DoSetDefaultAccountID ==
  /\ \E var \in DefaultValues : SetDefaultAccountID(var)
  /\ UNCHANGED envVarRest
DoCallLoadConfig ==
  /\ \E before \in SUBSET discoverAccountIDs(environ.vars) : CallLoadConfig(before)
  /\ UNCHANGED envVarRest

\* ------------------------------------------------------------------------
\* Two requests in Handler.getEmailCache at the same time. The handler has
\* no mutex: the lookup in h.clients, the construction of AccountClients, the
\* store into h.clients, the test of clients.emailCache and the assignment to
\* it are separate steps of each goroutine. AccountClients and EmailCache
\* objects are numbered in the order they are built; 0 is nil / not in the map.
\* ------------------------------------------------------------------------
IdleRequest == [pc |-> "idle", acct |-> NoAccount, clients |-> 0, cache |-> 0, served |-> 0]

NoClientsRace(config) ==
  [config |-> config, map |-> [a \in ConfiguredIDs |-> 0], objs |-> <<>>, caches |-> <<>>,
   reqs |-> [g \in Goroutines |-> IdleRequest], fatal |-> FALSE]

\* a request enters getAccountClients: resolveAccountID and GetAccount
BeginRequest(g, requestedID) ==
  LET r == GetAccount(hnd.config, resolveAccountID(hnd.config, requestedID))
  IN /\ ~hnd.fatal
     /\ hnd.reqs[g].pc = "idle"
     /\ hnd.reqs[g].served < MaxRequests
     /\ hnd' = [hnd EXCEPT !.reqs[g] =
                  IF r.err # ""
                    THEN [@ EXCEPT !.pc = "failed", !.served = @ + 1]
                    ELSE [@ EXCEPT !.pc = "lookup", !.acct = r.acct.AccountID,
                                   !.clients = 0, !.cache = 0]]

\* if clients, ok := h.clients[accountID]; ok { return clients, ... }
LookupClients(g) ==
  /\ ~hnd.fatal
  /\ hnd.reqs[g].pc = "lookup"
  /\ hnd' = [hnd EXCEPT !.reqs[g] =
               IF hnd.map[hnd.reqs[g].acct] # 0
                 THEN [@ EXCEPT !.pc = "cache", !.clients = hnd.map[hnd.reqs[g].acct]]
                 ELSE [@ EXCEPT !.pc = "create"]]

\* clients := &AccountClients{storage: NewStorage(...), cacheManager: NewCacheManager(...)}
CreateClients(g) ==
  /\ ~hnd.fatal
  /\ hnd.reqs[g].pc = "create"
  /\ hnd' = [hnd EXCEPT
       !.objs = Append(@, [acct |-> hnd.reqs[g].acct, by |-> g, emailCache |-> 0]),
       !.reqs[g] = [@ EXCEPT !.pc = "store", !.clients = Len(hnd.objs) + 1]]

\* another goroutine is at an access of the map h.clients
MapAccessPending(g) == \E o \in Goroutines \ {g} : hnd.reqs[o].pc \in {"lookup", "store"}

\* h.clients[accountID] = clients. A write to a map while another goroutine
\* reads or writes it is a data race: the accesses take effect in one order
\* or the other, or the runtime stops the process (concurrent map writes).
StoreClients(g) ==
  /\ ~hnd.fatal
  /\ hnd.reqs[g].pc = "store"
  /\ \/ hnd' = [hnd EXCEPT !.map[hnd.reqs[g].acct] = hnd.reqs[g].clients,
                           !.reqs[g].pc = "cache"]
     \/ MapAccessPending(g) /\ hnd' = [hnd EXCEPT !.fatal = TRUE]

\* if clients.emailCache == nil
TestEmailCache(g) ==
  /\ ~hnd.fatal
  /\ hnd.reqs[g].pc = "cache"
  /\ hnd' = [hnd EXCEPT !.reqs[g].pc =
               IF hnd.objs[hnd.reqs[g].clients].emailCache = 0 THEN "newcache" ELSE "return"]

\* clients.emailCache = storage.NewEmailCache(filesRoot, ...)
SetEmailCache(g) ==
  /\ ~hnd.fatal
  /\ hnd.reqs[g].pc = "newcache"
  /\ hnd' = [hnd EXCEPT
       !.caches = Append(@, [acct |-> hnd.reqs[g].acct, by |-> g]),
       !.objs[hnd.reqs[g].clients].emailCache = Len(hnd.caches) + 1,
       !.reqs[g].pc = "return"]

\* return clients.emailCache, nil: the request goes on with what it reads
ReturnEmailCache(g) ==
  /\ ~hnd.fatal
  /\ hnd.reqs[g].pc = "return"
  /\ hnd' = [hnd EXCEPT !.reqs[g] =
               [@ EXCEPT !.pc = "using",
                         !.cache = hnd.objs[hnd.reqs[g].clients].emailCache]]

\* the request is answered
EndRequest(g) ==
  /\ ~hnd.fatal
  /\ hnd.reqs[g].pc \in {"using", "failed"}
  /\ hnd' = [hnd EXCEPT !.reqs[g] =
               IF @.pc = "using" THEN [@ EXCEPT !.pc = "idle", !.served = @ + 1]
               ELSE [@ EXCEPT !.pc = "idle"]]

DoBeginRequest ==
  /\ \E g \in Goroutines, requestedID \in RequestedIDs : BeginRequest(g, requestedID)
  /\ UNCHANGED hndRest
DoLookupClients == (\E g \in Goroutines : LookupClients(g)) /\ UNCHANGED hndRest
DoCreateClients == (\E g \in Goroutines : CreateClients(g)) /\ UNCHANGED hndRest
DoStoreClients == (\E g \in Goroutines : StoreClients(g)) /\ UNCHANGED hndRest
DoTestEmailCache == (\E g \in Goroutines : TestEmailCache(g)) /\ UNCHANGED hndRest
DoSetEmailCache == (\E g \in Goroutines : SetEmailCache(g)) /\ UNCHANGED hndRest
DoReturnEmailCache == (\E g \in Goroutines : ReturnEmailCache(g)) /\ UNCHANGED hndRest
DoEndRequest == (\E g \in Goroutines : EndRequest(g)) /\ UNCHANGED hndRest

\* ------------------------------------------------------------------------
\* The two files of an account root that are named metadata: the identity
\* record at <root>/metadata.yaml, where the older CacheManager also kept its
\* ledger, and the ledger at <root>/cache/cache_metadata.yaml. scan.old and
\* scan.new are the two files, a YAML file being the document it holds.
\* ------------------------------------------------------------------------
\* CacheMetadata (cache_version, total_size_bytes, entries)
CacheMetadata(version, total) == [Version |-> version, TotalSize |-> total, Entries |-> <<>>]

\* yaml.Unmarshal(data, &metadata) with metadata a CacheMetadata: the keys of
\* the struct are taken from the document, the other keys are ignored and a
\* key that is not there leaves the zero value
UnmarshalCacheMetadata(doc) ==
  [Version |-> IF "Version" \in DOMAIN doc THEN doc.Version ELSE 0,
   TotalSize |-> IF "TotalSize" \in DOMAIN doc THEN doc.TotalSize ELSE 0,
   Entries |-> IF "Entries" \in DOMAIN doc THEN doc.Entries ELSE <<>>]

\* yaml.Unmarshal into an AccountMetadata, likewise
UnmarshalAccountMetadata(file) ==
  IF file.kind # "yaml" THEN NoMetadata
  ELSE IF "AccountID" \in DOMAIN file.doc THEN file.doc
  ELSE AccountMetadata("", "", 0, 0)

\* mutant: every file that parses is taken for a ledger
IsLegacyLedger_AnyYAML(file) == file.kind = "yaml"

\* migrateOldMetadata goes on when the old file can be read, parses and has a
\* non-zero cache_version
IsLegacyLedger(file) ==
  /\ file.kind = "yaml"
  /\ UnmarshalCacheMetadata(file.doc).Version # 0

\* mkdir, rename and write say whether os.MkdirAll of the cache directory,
\* os.Rename and the os.WriteFile of the fallback succeed
MigrateIO == [mkdir : BOOLEAN, rename : BOOLEAN, write : BOOLEAN]

\* CacheManager.migrateOldMetadata: the two files it leaves
migrateOldMetadata(old, new, io) ==
  IF ~IsLegacyLedger(old) THEN [old |-> old, new |-> new]
  ELSE IF ~io.mkdir THEN [old |-> old, new |-> new]
  ELSE IF new # MissingFile THEN [old |-> MissingFile, new |-> new]
  ELSE IF io.rename \/ io.write THEN [old |-> MissingFile, new |-> old]
  ELSE [old |-> old, new |-> new]

NoAccountRoot == [old |-> MissingFile, new |-> MissingFile, last |-> [op |-> "none"]]

\* NewCacheManager(rootDir, maxSize)
NewCacheManager(io) ==
  LET r == migrateOldMetadata(scan.old, scan.new, io)
  IN scan' = [old |-> r.old, new |-> r.new,
              last |-> [op |-> "NewCacheManager", old |-> scan.old, new |-> scan.new,
                        io |-> io]]

\* loadAccountConfig: WriteAccountMetadata(acct.MetadataFile, ...)
RootWriteAccountMetadata(accountID, emailAddress) ==
  scan' = [scan EXCEPT
     !.old = YAMLFile(WriteAccountMetadata(UnmarshalAccountMetadata(@), accountID,
                                           emailAddress, now)),
     !.last = [op |-> "WriteAccountMetadata"]]

\* SaveMetadata of the older CacheManager, whose metadataFile is
\* <root>/metadata.yaml
LegacySaveMetadata(total) ==
  scan' = [scan EXCEPT !.old = YAMLFile(CacheMetadata(1, total)),
                       !.last = [op |-> "LegacySaveMetadata"]]

\* SaveMetadata of the CacheManager
RootSaveMetadata(total) ==
  scan' = [scan EXCEPT !.new = YAMLFile(CacheMetadata(1, total)),
                       !.last = [op |-> "SaveMetadata"]]

\* <root>/metadata.yaml is removed or edited by hand
EditedFiles == {MissingFile, UnparsableFile, EmptyFile, YAMLFile(CacheMetadata(0, 0))}
RootEdit(file) ==
  scan' = [scan EXCEPT !.old = file, !.last = [op |-> "edit"]]

RootTick ==
  /\ now + 1 <= MaxRootNow
  /\ now' = now + 1
  /\ UNCHANGED <<Entries, TotalSize, files, last, emails, lastRead, rd, cfgVars,
                 boot, thr, envs, cid, scan, hnd, environ>>

DoNewCacheManager == (\E io \in MigrateIO : NewCacheManager(io)) /\ UNCHANGED scanRest
DoRootWriteAccountMetadata ==
  /\ \E accountID \in ConfiguredIDs, emailAddress \in EmailAddresses :
       RootWriteAccountMetadata(accountID, emailAddress)
  /\ UNCHANGED scanRest
DoLegacySaveMetadata == (\E total \in LedgerTotals : LegacySaveMetadata(total)) /\ UNCHANGED scanRest
DoRootSaveMetadata == (\E total \in LedgerTotals : RootSaveMetadata(total)) /\ UNCHANGED scanRest
DoRootEdit == (\E file \in EditedFiles : RootEdit(file)) /\ UNCHANGED scanRest

\* ------------------------------------------------------------------------
\* Idle values of the parts a specification does not exercise
\* ------------------------------------------------------------------------
InitNoSide == InitNoScan /\ InitNoHandler /\ InitNoEnv
InitAux == InitNoBoot /\ InitNoRace /\ InitNoEnvs /\ InitNoCacheID /\ InitNoSide

\* ------------------------------------------------------------------------
\* The reads of the email cache as the tools issue them, each recorded with
\* its arguments, the directory it found and the outcome of its write-backs
\* ------------------------------------------------------------------------
\* EmailCache.ReadBody where os.ReadFile of an existing metadata.yaml may fail
\* (metaOK says that it does not)
ReadBodyIO(dir, format, offset, limit, t, metaOK, wbFile, wbMeta) ==
  IF dir.present /\ ~metaOK
    THEN [res |-> NoResult("failed to read metadata"), dir |-> dir]
    ELSE ReadBodyResult(dir, format, offset, limit, t, wbFile, wbMeta)

\* Handler.handleReadEmailBody: IsCached (LoadMetadata returned no error),
\* then ReadBody with its error wrapped
handleReadEmailBody(dir, format, offset, limit, t, metaOK, wbFile, wbMeta) ==
  IF (dir.present /\ ~metaOK) \/ ~IsCached(dir, t)
    THEN [res |-> NoResult("email not in cache. Call fetch_email first"), dir |-> dir]
    ELSE LET r == ReadBodyIO(dir, format, offset, limit, t, metaOK, wbFile, wbMeta)
         IN IF r.res.err \notin {"", "panic"}
              THEN [res |-> NoResult("failed to read email body"), dir |-> r.dir]
              ELSE r

NoCall == [op |-> "none"]

InitNoCall == rd = NoCall

\* a call of a tool: its arguments, the directory it found, its result, and
\* what the operation of EmailCache under it returned
Call(op, m, format, offset, limit, metaOK, wbFile, wbMeta, res, inner) ==
  [op |-> op, msg |-> m, format |-> format, offset |-> offset, limit |-> limit,
   metaOK |-> metaOK, wbFile |-> wbFile, wbMeta |-> wbMeta, pre |-> emails[m],
   age |-> AgeOf(emails[m], now), res |-> res, inner |-> inner]

\* the read of metadata.yaml can fail only when the file is there
MetadataReadOutcomes(dir) == IF dir.present THEN BOOLEAN ELSE {TRUE}

\* read_email_body
CallReadEmailBody(m, format, offset, limit) ==
  \E metaOK \in MetadataReadOutcomes(emails[m]), wbFile, wbMeta \in WriteBackOutcomes(emails[m]) :
    LET r == handleReadEmailBody(emails[m], format, offset, limit, now, metaOK, wbFile, wbMeta)
        inner == ReadBodyIO(emails[m], format, offset, limit, now, metaOK, wbFile, wbMeta)
    IN /\ emails' = [emails EXCEPT ![m] = r.dir]
       /\ rd' = Call("handleReadEmailBody", m, format, offset, limit, metaOK, wbFile, wbMeta,
                     r.res, inner.res)

\* the preview of fetch_email
CallGetCacheInfo(m, previewLength) ==
  \E wbFile \in WriteBackOutcomes(emails[m]) :
    LET r == GetCacheInfoResult(emails[m], previewLength, now, wbFile)
        res == [NoResult(r.err) EXCEPT !.Content = r.Preview]
    IN /\ emails' = [emails EXCEPT ![m] = r.dir]
       /\ rd' = Call("GetCacheInfo", m, "text", 0, previewLength, TRUE, wbFile, TRUE, res, res)

serveRest == <<now, Entries, TotalSize, files, last, lastRead, cfgVars, auxVars>>

\* the messages are fetched (and fetched again) up to MaxFetchNow and read
\* over the days that follow; the record of the last call is dropped when a
\* message is fetched again and when time passes
ServeSaveEmail ==
  /\ now <= MaxFetchNow
  /\ \E m \in MsgIDs, body \in Bodies, html \in HTMLBodies : SaveEmail(m, body, html)
  /\ rd' = NoCall
  /\ UNCHANGED <<now, lastRead, cfgVars, auxVars>>

ServeTick ==
  /\ \E d \in CacheTickSteps : now + d <= MaxCacheNow /\ now' = now + d
  /\ rd' = NoCall
  /\ UNCHANGED <<Entries, TotalSize, files, last, emails, lastRead, cfgVars, auxVars>>

\* ClearCache of a CacheManager on the files root of the email cache: the
\* paths of the email entries are directories that hold the message files,
\* os.Remove of such a path fails and the error is dropped
ServeClearCache ==
  /\ ClearCache
  /\ rd' = NoCall
  /\ UNCHANGED <<now, emails, lastRead, cfgVars, auxVars>>

DoCallReadEmailBody ==
  /\ \E m \in MsgIDs, format \in Formats, offset \in ServeOffsets, limit \in ServeLimits :
       CallReadEmailBody(m, format, offset, limit)
  /\ UNCHANGED serveRest

DoCallGetCacheInfo ==
  /\ \E m \in MsgIDs, previewLength \in PreviewLengths : CallGetCacheInfo(m, previewLength)
  /\ UNCHANGED serveRest

\* ------------------------------------------------------------------------
\* fetch_email and read_email_body on one account with several messages:
\* each fetch that misses the cache saves the message and registers its
\* directory in the ledger, whose cleanup may evict the entries of messages
\* fetched before
\* ------------------------------------------------------------------------
\* EmailCache.SaveEmail of a message whose metadata.yaml takes extra bytes
\* for its headers
SaveFetched(m, body, html, extra) ==
  LET dir == SaveEmailDir(emails[m], body, html, now)
      r == AddEntryResult(Entries, TotalSize, m, "email", SaveEmailSize(dir) + extra, now)
  IN /\ emails' = [emails EXCEPT ![m] = dir]
     /\ Entries' = r.Entries
     /\ TotalSize' = r.TotalSize
     /\ files' = RemoveAll(files, r.removed)
     /\ last' = LastAdd(m, SaveEmailSize(dir) + extra, now, r)

\* Handler.handleFetchEmail: a message that is cached is answered from the
\* cache; otherwise it is fetched from the server (fetched says that this
\* succeeds) and saved; the answer is the preview of GetCacheInfo
handleFetchEmail(m, body, html, extra, fetched, metaOK, wbFile) ==
  IF emails[m].present /\ metaOK /\ IsCached(emails[m], now)
    THEN LET g == GetCacheInfoResult(emails[m], PreviewLength, now, wbFile)
         IN /\ emails' = [emails EXCEPT ![m] = g.dir]
            /\ rd' = Call("handleFetchEmail", m, "text", 0, PreviewLength, metaOK, wbFile, TRUE,
                          [NoResult("") EXCEPT !.Content = g.Preview], NoResult(""))
            /\ UNCHANGED <<Entries, TotalSize, files, last>>
  ELSE IF ~fetched
    THEN /\ rd' = Call("handleFetchEmail", m, "text", 0, PreviewLength, metaOK, wbFile, TRUE,
                       NoResult("failed to fetch email"), NoResult("failed to fetch email"))
         /\ UNCHANGED <<Entries, TotalSize, files, last, emails>>
  ELSE /\ SaveFetched(m, body, html, extra)
       /\ rd' = Call("handleFetchEmail", m, "text", 0, PreviewLength, metaOK, wbFile, TRUE,
                     [NoResult("") EXCEPT !.Content =
                        generatePreview(SaveEmailDir(emails[m], body, html, now),
                                        PreviewLength, wbFile).preview],
                     NoResult(""))

fetchRest == <<now, lastRead, cfgVars, auxVars>>

DoFetchEmail ==
  /\ \E m \in FetchIDs, body \in FetchedBodies, html \in FetchedHTMLBodies, extra \in HeaderBytes,
        fetched \in BOOLEAN :
       \E metaOK \in MetadataReadOutcomes(emails[m]) :
         handleFetchEmail(m, body, html, extra, fetched, metaOK, TRUE)
  /\ UNCHANGED fetchRest

DoReadFetched ==
  /\ \E m \in FetchIDs : CallReadEmailBody(m, "text", 0, PreviewLength)
  /\ UNCHANGED serveRest

FetchTick ==
  /\ \E d \in CacheTickSteps : now + d <= MaxCacheNow /\ now' = now + d
  /\ rd' = NoCall
  /\ UNCHANGED <<Entries, TotalSize, files, last, emails, lastRead, cfgVars, auxVars>>

FetchClearCache ==
  /\ ClearCache
  /\ rd' = NoCall
  /\ UNCHANGED <<now, emails, lastRead, cfgVars, auxVars>>

\* ------------------------------------------------------------------------
\* Properties of the ledger
\* ------------------------------------------------------------------------
RECURSIVE SumOf(_)
SumOf(s) == IF s = <<>> THEN 0 ELSE Head(s).Size + SumOf(Tail(s))

C2_WithinMaxSize ==
  /\ TotalSize <= 1024
  /\ ( /\ last.op = "AddEntry" /\ last.added /\ last.size = 600
       /\ Len(last.input) = 2
       /\ last.input[1].Size = 500
       /\ last.input[2].ID = last.id )
     => ( /\ Len(Entries) = 1 /\ Entries[1].ID = last.id /\ Entries[1].Size = 600
          /\ TotalSize = 600 )

\* scenario 1 has happened with both entries fresh: a was evicted by size
C2_Witness ==
  /\ last.op = "AddEntry" /\ last.size = 600 /\ last.cleaned
  /\ Len(last.input) = 2
  /\ last.input[1].Size = 500 /\ last.input[1].CachedAt = last.at
  /\ last.input[2].ID = last.id
  /\ last.removed = <<last.input[1].ID>>
  /\ TotalSize = 600

\* C3: an eviction pass at time t removes first every entry with
\* t - created_at >= max_age, then, only if the total still exceeds max_size,
\* the remaining entries in ascending created_at order, each removal made
\* while the total still exceeds max_size, and nothing else.
C3_CleanupExact ==
  last.cleaned =>
    LET inp == last.input
        t == last.at
        old(e) == t - e.CachedAt >= 24
        aged == SelectSeq(inp, old)
        valid == SelectSeq(inp, LAMBDA e : ~old(e))
        k == Len(last.removed) - Len(aged)
        bySize == [j \in 1..k |-> CHOOSE e \in Range(inp) : e.ID = last.removed[Len(aged) + j]]
    IN /\ k >= 0
       /\ \A i \in 1..Len(aged) : last.removed[i] = aged[i].ID
       /\ \A j \in 1..k : bySize[j] \in Range(valid)
       /\ \A i, j \in 1..k : i < j => /\ bySize[i].CachedAt <= bySize[j].CachedAt
                                      /\ bySize[i] # bySize[j]
       /\ \A j \in 1..k : \A e \in Range(Entries) : bySize[j].CachedAt <= e.CachedAt
       /\ \A j \in 1..k : SumOf(valid) - SumOf(SubSeq(bySize, 1, j - 1)) > 1024
       /\ SumOf(valid) - SumOf(bySize) <= 1024 \/ k = Len(valid)
       /\ Range(Entries) = Range(valid) \ Range(bySize)
       /\ Len(Entries) = Len(valid) - k

\* an eviction pass removed one entry by age and one by size, and the entry
\* removed by size was created before an entry that was kept although it had
\* been accessed no earlier than that entry
C3_Witness ==
  /\ last.cleaned
  /\ \E i \in 1..Len(last.input) : last.at - last.input[i].CachedAt >= 24
  /\ \E i \in 1..Len(last.input) : \E e \in Range(Entries) :
       /\ last.at - last.input[i].CachedAt < 24
       /\ last.input[i].ID \in Range(last.removed)
       /\ last.input[i].AccessedAt >= e.AccessedAt
       /\ last.input[i].AccessedAt > last.input[i].CachedAt
       /\ last.input[i].CachedAt < e.CachedAt

\* ------------------------------------------------------------------------
\* Properties of the email cache
\* ------------------------------------------------------------------------
\* C4: once more than 96 hours have passed since a message was cached, every
\* read of it (LoadMetadata, IsCached, GetCacheInfo with its preview,
\* ReadBody) reports it as absent and returns no content although its
\* directory is still on disk; up to 96 hours the same reads succeed (reads
\* with a non-negative limit, no I/O failure).
C4_ExpiryWindow ==
  /\ \A m \in MsgIDs :
       emails[m].present =>
         LET d == emails[m]
             age == now - d.CachedAt
             bodies == { ReadBodyResult(d, f, o, l, now, TRUE, TRUE).res :
                           f \in Formats, o \in 0..MaxOffset, l \in 0..MaxLimit }
             infos == { GetCacheInfoResult(d, l, now, TRUE) : l \in 0..MaxLimit }
         IN IF age > 96
              THEN /\ LoadMetadata(d, now) # "" /\ ~IsCached(d, now)
                   /\ \A r \in bodies : r.err # "" /\ r.Content = <<>>
                   /\ \A i \in infos : i.err # "" /\ i.Preview = <<>>
              ELSE /\ LoadMetadata(d, now) = "" /\ IsCached(d, now)
                   /\ \A r \in bodies : r.err = ""
                   /\ \A i \in infos : i.err = ""
  /\ lastRead.age > 96 => lastRead.err # "" /\ lastRead.content = <<>>

\* a body read of a message cached more than 96 hours ago, whose body file is
\* still on disk, was refused
C4_Witness ==
  /\ lastRead.op = "ReadBody" /\ lastRead.age > 96
  /\ lastRead.err = "cache entry expired"
  /\ emails[lastRead.msg].present
  /\ emails[lastRead.msg].text # NoFile
  /\ now - emails[lastRead.msg].CachedAt > 96

\* ------------------------------------------------------------------------
\* Properties of chunked reads
\* ------------------------------------------------------------------------
\* the body in the representation a format selects
SelectedBody(body, html, format) ==
  IF format = "raw_html" THEN html
  ELSE IF body # <<>> THEN body
  ELSE IF html = <<"t", "a", "s">> THEN <<"a">>
  ELSE <<>>

\* C5 as stated: for any limit, paging from offset 0 until is_complete
\* terminates and the chunks concatenate to the full body.
C5_Original ==
  /\ <>(rd.active /\ rd.done)
  /\ [](rd.active /\ rd.done => rd.acc = SelectedBody(rd.body, rd.html, rd.format))

\* C5 amended: for any limit of at least 1, paging from offset 0 until
\* is_complete terminates, and the chunks concatenate to the full body, whose
\* length is the reported total size.
C5_PagingCompletes ==
  /\ [](rd.active /\ rd.limit >= 1 => <>rd.done)
  /\ [](rd.active /\ rd.done =>
          /\ rd.acc = SelectedBody(rd.body, rd.html, rd.format)
          /\ Len(rd.acc) = rd.res.TotalSize
          /\ ~rd.failed)

\* a body of 5 bytes has been read completely in three chunks of limit 2
C5_Witness ==
  /\ rd.active /\ rd.done /\ rd.limit = 2
  /\ Len(rd.acc) = 5
  /\ rd.res.Offset = 4 /\ Len(rd.res.Content) = 1 /\ rd.res.Remaining = 0

\* C6: every chunk read of a message that has a body in the selected
\* representation returns at most limit bytes, remaining =
\* max(0, total_size - offset - returned length), and is_complete exactly when
\* remaining is 0.
C6_ChunkArithmetic ==
  \A m \in MsgIDs : \A f \in Formats, o \in 0..MaxOffset, l \in 0..MaxLimit :
    LET r == ReadBodyResult(emails[m], f, o, l, now, TRUE, TRUE).res
        rest == r.TotalSize - o - Len(r.Content)
    IN (emails[m].present /\ r.err = "" /\ r.Source # "none") =>
         /\ Len(r.Content) <= l
         /\ r.Offset = o /\ r.Limit = l
         /\ r.Remaining = IF rest > 0 THEN rest ELSE 0
         /\ r.IsComplete <=> (r.Remaining = 0)
         /\ r.TotalSize > o => (Len(r.Content) = IF l < r.TotalSize - o THEN l ELSE r.TotalSize - o)

\* a chunk read returned the first part of a longer body
C6_Witness ==
  /\ lastRead.op = "ReadBody" /\ lastRead.err = ""
  /\ Len(lastRead.content) = 1
  /\ emails[lastRead.msg].present
  /\ emails[lastRead.msg].TextBodySize = 2

\* ------------------------------------------------------------------------
\* Properties of the configuration load and the folder migration
\* ------------------------------------------------------------------------
\* C7: no configuration load loses the data of an account folder: every file
\* that was under a folder before the load is afterwards under that folder or
\* under the folder it was renamed to.
C7_NoDataLoss ==
  load.done =>
    \A f \in DOMAIN load.pre : \A file \in load.pre[f].data :
      \/ f \in DOMAIN disk /\ file \in disk[f].data
      \/ \E p \in load.plans :
           /\ p.OldFolderName = f
           /\ p.NewAccountID \in DOMAIN disk
           /\ file \in disk[p.NewAccountID].data

\* a folder that held a file was renamed by the load and the file is under
\* the new name
C7_Witness ==
  /\ load.done
  /\ \E p \in load.plans :
       /\ p.OldFolderName \in DOMAIN load.pre
       /\ p.OldFolderName \notin DOMAIN disk
       /\ load.pre[p.OldFolderName].data # {}
       /\ p.NewAccountID \in DOMAIN disk
       /\ load.pre[p.OldFolderName].data \subseteq disk[p.NewAccountID].data

\* the plans of the last load that did not fail
Succeeded == {p \in load.plans : \A e \in load.errors : e.plan # p}

\* the folder is in the no-action case of the planner
NoActionCase(d, accounts, f) ==
  /\ f \in DOMAIN d /\ d[f].meta.valid
  /\ d[f].meta.AccountID = f
  /\ f \in DOMAIN accounts /\ accounts[f] = d[f].meta.EmailAddress

\* C8: after a migration has succeeded, the planner run again with the same
\* configuration puts the migrated folder in the no-action case and emits no
\* plan for it, right after the migration and after the load; when every plan
\* of the load succeeded it emits no plan at all.
C8_Idempotent ==
  load.done =>
    /\ \A p \in Succeeded :
         /\ NoActionCase(load.mid, load.accounts, p.NewAccountID)
         /\ NoActionCase(disk, load.accounts, p.NewAccountID)
         /\ \A d \in {load.mid, disk} : \A plans \in DetectOutcomes(d, load.accounts) :
              \A q \in plans : q.OldFolderName # p.NewAccountID
    /\ (load.plans # {} /\ load.errors = {}) =>
         /\ DetectOutcomes(load.mid, load.accounts) = {{}}
         /\ DetectOutcomes(disk, load.accounts) = {{}}

\* every plan of a load with two plans succeeded
C8_Witness ==
  /\ load.done
  /\ Cardinality(load.plans) = 2
  /\ load.errors = {}
  /\ \A p \in load.plans : NoActionCase(load.mid, load.accounts, p.NewAccountID)

C10_NewestOnly ==
  load.done =>
    \A e \in EmailAddresses :
      LET group == {f \in DOMAIN load.pre :
                      load.pre[f].meta.valid /\ load.pre[f].meta.EmailAddress = e}
          planned == {f \in group : \E p \in load.plans : p.OldFolderName = f}
      IN (Cardinality(group) > 1 /\ \E a \in DOMAIN load.accounts : load.accounts[a] = e) =>
           /\ Cardinality(planned) <= 1
           /\ \A f \in planned : \A g \in group :
                load.pre[g].meta.UpdatedAt <= load.pre[f].meta.UpdatedAt
           /\ \A g \in group \ planned : g \in DOMAIN load.mid /\ load.mid[g] = load.pre[g]

\* C11: a folder whose identity email matches no configured account gets no
\* plan, and the configuration load leaves it untouched: it is still there
\* under its name with the same identity record and the same files.
C11_OrphanUntouched ==
  load.done =>
    \A f \in DOMAIN load.pre :
      (/\ load.pre[f].meta.valid
       /\ \A a \in DOMAIN load.accounts : load.accounts[a] # load.pre[f].meta.EmailAddress)
      => /\ \A p \in load.plans : p.OldFolderName # f
         /\ f \in DOMAIN load.post
         /\ load.post[f] = load.pre[f]

\* C12: executing a plan whose source folder does not exist or whose
\* destination folder exists returns an error and leaves the folders and
\* their identity records as they were.
C12_PreconditionAborts ==
  \A old \in AccountIDs, new \in AccountIDs, email \in EmailAddresses,
     io \in {WriteOK} \cup WriteFailures :
    (old \notin DOMAIN disk \/ new \in DOMAIN disk) =>
      LET r == ExecuteMigration(disk, [OldFolderName |-> old, NewAccountID |-> new,
                                       EmailAddress |-> email], now, io)
      IN r.err # "" /\ r.disk = disk

\* a plan of the last load found its destination taken and its source folder
\* is as it was
C12_Witness ==
  /\ load.done
  /\ \E e \in load.errors :
       /\ e.err = "target folder already exists"
       /\ e.plan.OldFolderName \in DOMAIN load.mid
       /\ load.mid[e.plan.OldFolderName] = load.pre[e.plan.OldFolderName]
       /\ load.pre[e.plan.OldFolderName].data # {}

\* C13: a plan that executes successfully leaves the old folder name absent
\* and the destination present with all former contents; the identity record
\* in the destination has the new account id, the same email, the same
\* created_at and a refreshed updated_at.
C13_SuccessfulPlan ==
  /\ \A old \in DOMAIN disk, new \in AccountIDs \ DOMAIN disk :
       disk[old].meta.valid =>
         LET M == disk[old].meta
             r == ExecuteMigration(disk, [OldFolderName |-> old, NewAccountID |-> new,
                                          EmailAddress |-> M.EmailAddress], now, WriteOK)
         IN /\ r.err = ""
            /\ old \notin DOMAIN r.disk
            /\ new \in DOMAIN r.disk
            /\ r.disk[new].data = disk[old].data
            /\ r.disk[new].meta.valid
            /\ r.disk[new].meta.AccountID = new
            /\ r.disk[new].meta.EmailAddress = M.EmailAddress
            /\ r.disk[new].meta.CreatedAt = M.CreatedAt
            /\ r.disk[new].meta.UpdatedAt = now
            /\ r.disk[new].meta.UpdatedAt > M.UpdatedAt
            /\ \A g \in DOMAIN disk \ {old} : g \in DOMAIN r.disk /\ r.disk[g] = disk[g]
  /\ load.done =>
       \A p \in load.plans :
         (\A e \in load.errors : e.plan # p) =>
           /\ p.NewAccountID \in DOMAIN load.mid
           /\ load.mid[p.NewAccountID].data = load.pre[p.OldFolderName].data
           /\ load.mid[p.NewAccountID].meta =
                [valid |-> TRUE, AccountID |-> p.NewAccountID,
                 EmailAddress |-> load.pre[p.OldFolderName].meta.EmailAddress,
                 CreatedAt |-> load.pre[p.OldFolderName].meta.CreatedAt,
                 UpdatedAt |-> load.at]
           /\ p.OldFolderName \in DOMAIN load.mid =>
                \E q \in load.plans : q.NewAccountID = p.OldFolderName

\* a folder with files was migrated by the last load and its record now
\* carries the new account id with the created_at of an earlier load
C13_Witness ==
  /\ load.done
  /\ \E p \in load.plans :
       /\ \A e \in load.errors : e.plan # p
       /\ p.OldFolderName \notin DOMAIN load.mid
       /\ load.pre[p.OldFolderName].data # {}
       /\ load.mid[p.NewAccountID].meta.AccountID = p.NewAccountID
       /\ load.mid[p.NewAccountID].meta.CreatedAt < load.at
       /\ load.mid[p.NewAccountID].meta.UpdatedAt = load.at

\* C14: when the rewrite of the identity record fails after the rename,
\* ExecuteMigration returns an error; after a successful rollback the source
\* folder is under its old name with its identity record as before the plan
\* and the destination does not exist; when the rollback fails too the error
\* reports both failures.
C14_Rollback ==
  \A old \in DOMAIN disk, new \in AccountIDs \ DOMAIN disk, io \in WriteFailures :
    disk[old].meta.valid =>
      LET r == ExecuteMigration(disk, [OldFolderName |-> old, NewAccountID |-> new,
                                       EmailAddress |-> disk[old].meta.EmailAddress], now, io)
      IN /\ r.err # ""
         /\ io.rollback =>
              /\ r.err = "failed to update metadata (rollback successful)"
              /\ old \in DOMAIN r.disk
              /\ r.disk[old].meta = disk[old].meta
              /\ r.disk[old].data = disk[old].data
              /\ new \notin DOMAIN r.disk
         /\ ~io.rollback => r.err = "failed to update metadata and rollback failed"

\* C15: a failing plan is contained: every plan of the batch is attempted and
\* either succeeds or yields exactly one error, a plan that succeeded stays
\* done whatever happens to the others, the load goes on to write the
\* identity of every configured account, and the folder of a failed plan is
\* still there with its files (under the destination name only when the
\* rollback rename failed).
C15_FailureContained ==
  load.done =>
    /\ \A e \in load.errors : e.plan \in load.plans /\ e.err # ""
    /\ \A e1 \in load.errors, e2 \in load.errors : e1.plan = e2.plan => e1 = e2
    /\ \A p \in load.plans :
         \/ \E e \in load.errors : e.plan = p
         \/ /\ p.NewAccountID \in DOMAIN load.mid
            /\ load.mid[p.NewAccountID].meta.valid
            /\ load.mid[p.NewAccountID].meta.AccountID = p.NewAccountID
            /\ load.mid[p.NewAccountID].data = load.pre[p.OldFolderName].data
    /\ \A a \in DOMAIN load.accounts :
         /\ a \in DOMAIN load.post
         /\ load.post[a].meta.valid
         /\ load.post[a].meta.AccountID = a
         /\ load.post[a].meta.EmailAddress = load.accounts[a]
    /\ \A e \in load.errors :
         LET at == IF e.err = "failed to update metadata and rollback failed"
                     THEN e.plan.NewAccountID ELSE e.plan.OldFolderName
         IN /\ at \in DOMAIN load.mid /\ at \in DOMAIN load.post
            /\ load.mid[at].data = load.pre[e.plan.OldFolderName].data
            /\ load.post[at].data = load.pre[e.plan.OldFolderName].data

\* of the two plans of the last load one failed and the other one succeeded
C15_Witness ==
  /\ load.done
  /\ Cardinality(load.plans) = 2
  /\ Cardinality(load.errors) = 1
  /\ \E p \in load.plans :
       /\ \A e \in load.errors : e.plan # p
       /\ p.NewAccountID \in DOMAIN load.post
       /\ load.post[p.NewAccountID].data = load.pre[p.OldFolderName].data
       /\ load.pre[p.OldFolderName].data # {}

\* C18: over the identity writes to a record (first load, reloads,
\* migrations) created_at keeps the value of the first write; a write to an
\* existing record changes only account_id, email and updated_at.
C18_CreatedAtKept ==
  /\ \A f \in DOMAIN disk :
       disk[f].meta.valid =>
         /\ disk[f].meta.CreatedAt <= disk[f].meta.UpdatedAt
         /\ \A id \in AccountIDs, email \in EmailAddresses :
              LET w == WriteAccountMetadata(disk[f].meta, id, email, now)
              IN w = [valid |-> TRUE, AccountID |-> id, EmailAddress |-> email,
                      CreatedAt |-> disk[f].meta.CreatedAt, UpdatedAt |-> now]
  /\ load.done =>
       /\ \A f \in DOMAIN load.post :
            IF f \in DOMAIN load.mid /\ load.mid[f].meta.valid
              THEN /\ load.post[f].meta.CreatedAt = load.mid[f].meta.CreatedAt
                   /\ load.post[f].data = load.mid[f].data
                   /\ f \notin DOMAIN load.accounts => load.post[f] = load.mid[f]
              ELSE f \notin DOMAIN load.mid =>
                     load.post[f].meta.CreatedAt = load.post[f].meta.UpdatedAt
       /\ \A p \in load.plans :
            (\A e \in load.errors : e.plan # p) =>
              /\ load.mid[p.NewAccountID].meta.CreatedAt =
                   load.pre[p.OldFolderName].meta.CreatedAt
              /\ load.post[p.NewAccountID].meta.CreatedAt =
                   load.pre[p.OldFolderName].meta.CreatedAt

\* the record of a folder was created by an earlier load, the folder was
\* migrated by the last load and its identity was then written again
C18_Witness ==
  /\ load.done
  /\ \E p \in load.plans :
       /\ \A e \in load.errors : e.plan # p
       /\ load.pre[p.OldFolderName].meta.CreatedAt < load.at
       /\ load.post[p.NewAccountID].meta.CreatedAt = load.pre[p.OldFolderName].meta.CreatedAt
       /\ load.post[p.NewAccountID].meta.UpdatedAt > load.at
       /\ load.post[p.NewAccountID].meta.AccountID # load.pre[p.OldFolderName].meta.AccountID

\* C16: within a run, plan detection and the execution of every plan are
\* complete before the first identity write or directory creation of
\* loadAccountConfig and before any operation of an account; no folder is
\* renamed after an account was written or used
C16_MigrationsFirst ==
  /\ (boot.loaded # {} \/ boot.operated # {}) =>
       /\ boot.migrations = <<>>
       /\ boot.pc \in {"loadAccountConfig", "Run"}
  /\ boot.operated # {} => boot.pc = "Run" /\ boot.todo = {}
  /\ ~boot.late

C16_Witness ==
  /\ boot.renames > 0
  /\ boot.loaded # {}
  /\ boot.operated # {}

\* C17: mutations of one account's ledger are serialized: the
\* load-modify-save steps of two calls never interleave, no update of the
\* entry set or of total_size is lost, and no backing file is deleted twice
C17_Serialized ==
  /\ \A w1, w2 \in Workers :
       thr.g[w1].pc = "loaded" /\ thr.g[w2].pc = "loaded" => w1 = w2
  /\ thr.expected \subseteq EntryIDs(Entries)
  /\ TotalSize = SumSizes(Entries)
  /\ ~thr.twice

\* C19: the metadata read back before expiry after a message was written
\* holds the envelope fields that were written (message id, sender,
\* recipients, subject, date, reply-chain references, attachment
\* descriptors) and body sizes equal to the byte lengths of the bodies that
\* were written
SameEnvelope(meta, m, env) ==
  /\ meta.MessageID = m
  /\ meta.From = env.From
  /\ meta.To.elems = env.To.elems
  /\ meta.CC.elems = env.CC.elems
  /\ meta.Subject = env.Subject
  /\ meta.Date = env.Date
  /\ meta.InReplyTo = env.InReplyTo
  /\ meta.References.elems = env.References.elems
  /\ meta.Attachments.elems = env.Attachments.elems

SafeID(d) ==
  /\ \A i \in DOMAIN d.id : d.id[i] \notin {"/", "\\"}
  /\ Len(d.id) <= MaxCacheIDLen
  /\ Len(d.clean) > MaxCacheIDLen => Len(d.id) = HashWidth
  /\ Len(d.path) = 1

C20_SafeContentID ==
  /\ cid.dir.done => SafeID(cid.dir)
  /\ cid.file.done => SafeID(cid.file)

\* C21: a read of a message that was never cached and a read of a message
\* whose entry has expired each fail with their own condition, both
\* distinguishable from an I/O error on an existing valid entry, and neither
\* returns content
NeverCached(c) == ~c.pre.present
ExpiredEntry(c) == c.pre.present /\ c.metaOK /\ c.age > CacheExpiry
IOErrorOnValid(c) == c.pre.present /\ c.age <= CacheExpiry /\ c.res.err # ""

ReadConditions(c, notCached, expired) ==
  /\ NeverCached(c) => c.res.err = notCached /\ c.res.Content = <<>>
  /\ ExpiredEntry(c) => c.res.err = expired /\ c.res.Content = <<>>
  /\ IOErrorOnValid(c) => c.res.err \notin {notCached, expired}

C21_Original ==
  rd.op = "handleReadEmailBody" =>
    \E notCached, expired \in {"email not in cache. Call fetch_email first",
                               "failed to read email body"} :
      notCached # expired /\ ReadConditions(rd, notCached, expired)

\* C22: when a preview or a text-format chunk read converts the HTML on the
\* fly, a failed write-back of the converted text or of the metadata does
\* not make the read fail: the converted content is returned
Served(c) == c.pre.present /\ c.metaOK /\ c.age <= CacheExpiry

\* the read has a limit the buffer can be made with (C33 covers the others)
ChunkConvertsOnTheFly(c) ==
  /\ c.op = "handleReadEmailBody" /\ c.format = "text" /\ Served(c)
  /\ c.limit >= 0
  /\ c.pre.TextBodySize = 0 /\ c.pre.ConvertedTextSize = 0
  /\ c.pre.HTMLBodySize > 0 /\ c.pre.html # NoFile

PreviewConvertsOnTheFly(c) ==
  /\ c.op = "GetCacheInfo" /\ Served(c)
  /\ c.pre.TextBodySize = 0 \/ c.pre.text = NoFile
  /\ c.pre.ConvertedTextSize = 0 \/ c.pre.converted = NoFile
  /\ c.pre.HTMLBodySize > 0 /\ c.pre.html # NoFile

C22_WriteBackTolerated ==
  /\ ChunkConvertsOnTheFly(rd) =>
       /\ rd.inner.err = ""
       /\ rd.inner.Content =
            readFileChunk(ConvertHTMLToText(rd.pre.html), rd.offset, rd.limit).content
  /\ PreviewConvertsOnTheFly(rd) =>
       /\ rd.res.err = ""
       /\ rd.res.Content = Prefix(ConvertHTMLToText(rd.pre.html), rd.limit)

\* C23: previews and text-format chunk reads resolve the text in the same
\* order (stored plain text, else the cached HTML-derived text, else the
\* HTML converted on the fly), a raw_html read uses the raw HTML only; the
\* preview is a prefix of at most max_len of the resolved text, the source
\* of the chunk names the representation read, and a message with no body
\* yields an empty preview and an empty, complete chunk
Resolved(dir) ==
  IF dir.TextBodySize > 0 THEN [source |-> "text_body", text |-> dir.text]
  ELSE IF dir.ConvertedTextSize > 0 THEN [source |-> "html_converted", text |-> dir.converted]
  ELSE IF dir.HTMLBodySize > 0
    THEN [source |-> "html_converted", text |-> ConvertHTMLToText(dir.html)]
  ELSE [source |-> "none", text |-> <<>>]

ChunkOf(c, source, text) ==
  /\ c.res.err = ""
  /\ c.res.Source = source
  /\ c.res.Content = readFileChunk(text, c.offset, c.limit).content
  /\ source = "none" => c.res.Content = <<>> /\ c.res.IsComplete

C23_SamePriority ==
  (rd.op # "none" /\ Served(rd) /\ rd.wbFile /\ rd.limit >= 0) =>
    /\ rd.op = "GetCacheInfo" =>
         rd.res.err = "" /\ rd.res.Content = Prefix(Resolved(rd.pre).text, rd.limit)
    /\ (rd.op = "handleReadEmailBody" /\ rd.format = "text") =>
         ChunkOf(rd, Resolved(rd.pre).source, Resolved(rd.pre).text)
    /\ (rd.op = "handleReadEmailBody" /\ rd.format = "raw_html") =>
         IF rd.pre.HTMLBodySize > 0
           THEN ChunkOf(rd, "html_body", rd.pre.html)
           ELSE ChunkOf(rd, "none", <<>>)

\* the preview of a message that has a text body and an HTML body
C23_Witness ==
  /\ rd.op = "GetCacheInfo" /\ Served(rd)
  /\ rd.pre.TextBodySize > rd.limit
  /\ rd.pre.HTMLBodySize > 0
  /\ Len(rd.res.Content) = rd.limit

\* C24: after ClearCache the ledger has no entries, its total size is 0 and
\* the backing storage of every entry recorded before the call is deleted
BackingStorageDeleted(e) ==
  /\ e.FilePath \notin files
  /\ e.FilePath \in DOMAIN emails => ~emails[e.FilePath].present

C24_ClearDeletes ==
  last.op = "ClearCache" =>
    /\ Entries = <<>>
    /\ TotalSize = 0
    /\ \A i \in 1..Len(last.input) : BackingStorageDeleted(last.input[i])

\* C25: a scan of the root returns exactly the immediate subdirectories that
\* hold a readable identity record, keyed by folder name; a subdirectory
\* whose record is missing or does not parse is left out and the scan does
\* not fail, and a root that does not exist gives an empty result, no error
HoldsReadableRecord(entry) == entry.dir /\ entry.file.kind = "yaml"

C25_ScanReadable ==
  (scan.last.op = "ScanExistingFolders" /\ scan.last.readDirOK) =>
    LET pre == scan.last.pre
        res == scan.last.res
    IN /\ res.err = ""
       /\ DOMAIN res.folders =
            {f \in DOMAIN pre.entries : HoldsReadableRecord(pre.entries[f])}
       /\ \A f \in DOMAIN res.folders : res.folders[f] = pre.entries[f].file.doc
       /\ ~pre.exists => res.folders = <<>>

\* a scan of a root with a folder that has a record, and a folder whose
\* record does not parse
C25_Witness ==
  /\ scan.last.op = "ScanExistingFolders"
  /\ scan.last.readDirOK
  /\ \E f, g \in DOMAIN scan.last.pre.entries :
       /\ f \in DOMAIN scan.last.res.folders
       /\ scan.last.pre.entries[g].dir
       /\ scan.last.pre.entries[g].file.kind = "unparsable"

\* C26: every operation resolves an empty account_id to the configured
\* default account and a non-empty account_id to exactly that account; an
\* account_id that is not configured gives an account-not-found error and no
\* client, storage or ledger is created for it
IsToolCall(c) == c.op \notin {"none", "loadAccountConfig"}

NothingCreated(pre) ==
  /\ hnd.clients = pre.clients
  /\ hnd.emailCaches = pre.emailCaches
  /\ hnd.folders = pre.folders

ConfiguredAccounts(e) == {a \in DOMAIN e.EMAIL : e.EMAIL[a].set}
AllLoadable(e) == \A a \in ConfiguredAccounts(e) : loadAccountConfigErr(e, a) = ""

DefaultIsConfigured(c) ==
  (c.res.err = "" /\ c.res.Accounts # {}) => c.res.DefaultAccountID \in c.res.Accounts

DefaultAutoSelected(c) ==
  (ConfiguredAccounts(c.pre) # {} /\ AllLoadable(c.pre)
     /\ Getenv(c.pre.DEFAULT_ACCOUNT_ID) = "") =>
    /\ c.res.err = ""
    /\ c.res.Accounts = ConfiguredAccounts(c.pre)
    /\ c.res.DefaultAccountID \in c.res.Accounts

UnknownDefaultFails(c) ==
  (ConfiguredAccounts(c.pre) # {} /\ Getenv(c.pre.DEFAULT_ACCOUNT_ID) # ""
     /\ Getenv(c.pre.DEFAULT_ACCOUNT_ID) \notin ConfiguredAccounts(c.pre)) =>
    c.res.err # ""

C28_DefaultNamesAccount ==
  environ.last.op = "LoadConfig" =>
    /\ DefaultIsConfigured(environ.last)
    /\ DefaultAutoSelected(environ.last)
    /\ UnknownDefaultFails(environ.last)

\* C29: LoadConfig succeeds when no account is configured and returns a
\* configuration with zero accounts and an empty DefaultAccountID
C29_NoAccountsSucceeds ==
  (environ.last.op = "LoadConfig" /\ ConfiguredAccounts(environ.last.pre) = {}
     /\ ~environ.last.pre.DEFAULT_ACCOUNT_ID.set) =>
    /\ environ.last.res.err = ""
    /\ environ.last.res.Accounts = {}
    /\ environ.last.res.DefaultAccountID = ""

\* ------------------------------------------------------------------------
\* C31: AddEntry of a new entry whose own size exceeds maxSize returns no
\* error; the entry is appended to the ledger, the cleanup pass of that same
\* call runs with the entry among its candidates, and the call ends with
\* TotalSize at most maxSize.
\* ------------------------------------------------------------------------
OversizedAdd == last.op = "AddEntry" /\ last.added /\ last.size > maxSize

C31_OversizedAccepted ==
  OversizedAdd =>
    /\ ~last.err
    /\ last.cleaned
    /\ last.id \in EntryIDs(last.input)
    /\ last.input[IndexOf(last.input, last.id)].Size = last.size
    /\ TotalSize <= maxSize

\* an oversized entry was added next to an entry that is still valid, and the
\* pass of that call evicted it
C31_Witness ==
  /\ OversizedAdd
  /\ Len(last.input) > 1
  /\ last.id \in Range(last.removed)
  /\ last.id \notin EntryIDs(Entries)

\* ------------------------------------------------------------------------
\* C32: eviction is deterministic. The set of entries a cleanup pass evicts
\* is fixed by the ledger (its entries in their order), maxSize and the
\* clock: the expired entries, and of the valid ones exactly those for which
\* the total of the entries not ranked before them exceeds maxSize, where
\* entries are ranked by creation time and, when creation times are equal,
\* by their position in the ledger.
\* ------------------------------------------------------------------------
RECURSIVE SizeOfIndexes(_, _)
SizeOfIndexes(entries, S) ==
  IF S = {} THEN 0
  ELSE LET i == CHOOSE x \in S : TRUE
       IN entries[i].Size + SizeOfIndexes(entries, S \ {i})

ValidIndexes(entries, t) == {i \in 1..Len(entries) : IsValidAge(entries[i], t)}

RankedBefore(entries, t, i) ==
  {j \in ValidIndexes(entries, t) :
     \/ entries[j].CachedAt < entries[i].CachedAt
     \/ entries[j].CachedAt = entries[i].CachedAt /\ j < i}

EvictedBy(entries, t) ==
  LET valid == ValidIndexes(entries, t)
      total == SizeOfIndexes(entries, valid)
  IN {entries[i].ID : i \in (1..Len(entries)) \ valid}
       \cup {entries[i].ID : i \in {j \in valid :
                total - SizeOfIndexes(entries, RankedBefore(entries, t, j)) > maxSize}}

CleanupRan == last.op = "AddEntry" /\ last.cleaned

C32_EvictionDeterministic ==
  CleanupRan =>
    /\ Range(last.removed) = EvictedBy(last.input, last.at)
    /\ EntryIDs(Entries) = EntryIDs(last.input) \ EvictedBy(last.input, last.at)

\* a pass that told two entries of equal creation time apart: it evicted one
\* and kept the other
C32_Witness ==
  /\ CleanupRan
  /\ \E i, j \in 1..Len(last.input) :
       /\ i # j
       /\ last.input[i].CachedAt = last.input[j].CachedAt
       /\ last.input[i].ID \in Range(last.removed)
       /\ last.input[j].ID \in EntryIDs(Entries)

\* ------------------------------------------------------------------------
\* C33: read_email_body with a negative offset or a negative limit is
\* rejected with a validation failure: the call returns an error that is not
\* a crash, no content and no chunk result.
\* ------------------------------------------------------------------------
InvalidChunkRead ==
  /\ rd.op = "handleReadEmailBody"
  /\ rd.offset < 0 \/ rd.limit < 0

C33_InvalidRejected ==
  InvalidChunkRead =>
    /\ rd.res.err \notin {"", "panic"}
    /\ rd.res = NoResult(rd.res.err)

\* the two ways the code leaves the claim: a negative limit on a cached
\* message ends in the panic of make([]byte, limit); a negative offset is
\* read from the start of the file and answered with a chunk
NegativeLimitPanics ==
  /\ rd.op = "handleReadEmailBody" /\ rd.limit < 0
  /\ rd.res.err = "panic"

NegativeOffsetServed ==
  /\ rd.op = "handleReadEmailBody" /\ rd.offset < 0 /\ rd.limit > 0
  /\ rd.res.err = "" /\ rd.res.Content # <<>>
  /\ rd.res.Offset < 0

\* ------------------------------------------------------------------------
\* C34: the handles of an account (storage and ledger manager in
\* AccountClients, the email cache) are built at most once per account id,
\* also when two requests for the account arrive at the same time as its
\* first access: the process keeps running and both requests use the same
\* handles.
\* ------------------------------------------------------------------------
BuiltFor(objs, a) == {i \in DOMAIN objs : objs[i].acct = a}

C34_HandlesBuiltOnce ==
  (hnd # NoHandler) =>
    /\ ~hnd.fatal
    /\ \A a \in ConfiguredIDs :
         /\ Cardinality(BuiltFor(hnd.objs, a)) <= 1
         /\ Cardinality(BuiltFor(hnd.caches, a)) <= 1
    /\ \A g, o \in Goroutines :
         (hnd.reqs[g].pc = "using" /\ hnd.reqs[o].pc = "using"
            /\ hnd.reqs[g].acct = hnd.reqs[o].acct) =>
           /\ hnd.reqs[g].clients = hnd.reqs[o].clients
           /\ hnd.reqs[g].cache = hnd.reqs[o].cache

\* two first requests of one account that are answered from different
\* AccountClients, the one of them lost from the map
TwoHandlesInUse ==
  /\ hnd # NoHandler
  /\ \E g, o \in Goroutines :
       /\ hnd.reqs[g].pc = "using" /\ hnd.reqs[o].pc = "using"
       /\ hnd.reqs[g].acct = hnd.reqs[o].acct
       /\ hnd.reqs[g].clients # hnd.reqs[o].clients
       /\ hnd.map[hnd.reqs[g].acct] # hnd.reqs[g].clients

\* requests that do not overlap build the handles once
SequentialBuiltOnce ==
  /\ hnd # NoHandler
  /\ \E g, o \in Goroutines :
       /\ g # o
       /\ hnd.reqs[g].pc = "using" /\ hnd.reqs[o].pc = "idle" /\ hnd.reqs[o].served > 0
       /\ Len(hnd.objs) = 1 /\ Len(hnd.caches) = 1

\* ------------------------------------------------------------------------
\* C35: after fetch_email of a message has succeeded, a read_email_body of
\* the message issued before the expiry window has elapsed does not fail
\* with not-in-cache, whatever was fetched in between and whatever the size
\* of the message.
\* ------------------------------------------------------------------------
NotInCache == "email not in cache. Call fetch_email first"

\* a read of a message that a fetch has saved, within the expiry window
ReadOfFetched ==
  /\ rd.op = "handleReadEmailBody"
  /\ rd.pre.present
  /\ rd.age <= CacheExpiry

C35_FetchedIsReadable == ReadOfFetched => rd.res.err # NotInCache

\* the read misses when metadata.yaml of the message cannot be read
MissOnReadError == ReadOfFetched /\ ~rd.metaOK /\ rd.res.err = NotInCache

\* with metadata.yaml readable the read is answered, also when the ledger
\* has evicted or cleared the entry of the message
ReadableIsServed == (ReadOfFetched /\ rd.metaOK) => rd.res.err = "" /\ rd.res.Content # <<>>

\* the message was larger than maxSize and its fetch evicted its own entry,
\* another message was fetched since, and the read is answered
OversizedStillServed ==
  /\ ReadOfFetched /\ rd.metaOK /\ rd.res.err = ""
  /\ rd.msg \notin EntryIDs(Entries)
  /\ \E o \in FetchIDs \ {rd.msg} : emails[o].present /\ emails[o].CachedAt >= rd.pre.CachedAt
  /\ last.op = "AddEntry" /\ last.size > maxSize

\* ------------------------------------------------------------------------
\* C36: the ledger and the message store stay consistent: every message the
\* store serves as cached has an entry in the ledger, and a message whose
\* entry the ledger has evicted or cleared is no longer served (IsCached is
\* false and a read reports not-in-cache).
\* ------------------------------------------------------------------------
C36_LedgerStoreConsistent ==
  /\ \A m \in DOMAIN emails : IsCached(emails[m], now) => m \in EntryIDs(Entries)
  /\ (rd.op = "handleReadEmailBody" /\ rd.msg \notin EntryIDs(Entries)) =>
       rd.res.err = NotInCache

\* the fetch of another message evicted the entry of a message that is then
\* read with success
EvictedStillServed ==
  /\ rd.op = "handleReadEmailBody" /\ rd.res.err = "" /\ rd.res.Content # <<>>
  /\ rd.msg \notin EntryIDs(Entries)
  /\ last.op = "AddEntry" /\ last.id # rd.msg /\ rd.msg \in Range(last.removed)

\* ClearCache emptied the ledger and the message is then read with success
ClearedStillServed ==
  /\ rd.op = "handleReadEmailBody" /\ rd.res.err = "" /\ rd.res.Content # <<>>
  /\ last.op = "ClearCache" /\ rd.msg \in Range(last.removed)
  /\ Entries = <<>>

\* ------------------------------------------------------------------------
\* C37: the result of executing a batch of plans does not depend on the
\* order of the plans: every order ends with the same folders and identity
\* records on disk and the same set of failed plans.
\* ------------------------------------------------------------------------
AllWritesOK(plans) == [p \in plans |-> WriteOK]

FailedPlans(r) == {e.plan : e \in r.errors}

BatchResult(order) == ExecuteAllMigrations(load.pre, order, load.at, AllWritesOK(load.plans))

C37_OrderIndependent ==
  load.done =>
    \A o1, o2 \in Orders(load.plans) :
      /\ BatchResult(o1).disk = BatchResult(o2).disk
      /\ FailedPlans(BatchResult(o1)) = FailedPlans(BatchResult(o2))

\* a chain of two plans with distinct sources and distinct destinations, the
\* destination of the one being the source of the other: all plans succeed in
\* one order and one of them fails in the other
ChainOfPlans ==
  /\ load.done
  /\ \E p, q \in load.plans :
       /\ p.NewAccountID = q.OldFolderName
       /\ p.NewAccountID # q.NewAccountID
       /\ p.OldFolderName # q.NewAccountID
       /\ BatchResult(<<q, p>>).errors = {}
       /\ FailedPlans(BatchResult(<<p, q>>)) = {p}
       /\ load.errors = {} \/ FailedPlans(load) = {p}

\* ------------------------------------------------------------------------
\* C38: the planner is deterministic: for the same folders on disk and the
\* same configuration it emits the same set of plans on every run, also when
\* two configured account ids have the same email address.
\* ------------------------------------------------------------------------
C38_PlannerDeterministic ==
  load.done => Cardinality(DetectOutcomes(load.pre, load.accounts)) = 1

\* two configured ids share the email of a folder, and two runs of the
\* planner on the same input emit plans with different destinations
TwoDestinations ==
  /\ load.done
  /\ \E f \in ScanExistingFolders(load.pre) :
       /\ Cardinality(MatchingAccountIDs(load.accounts, load.pre[f].meta.EmailAddress)) = 2
       /\ \E P, Q \in DetectOutcomes(load.pre, load.accounts) :
            \E p \in P, q \in Q :
              /\ p.OldFolderName = f /\ q.OldFolderName = f
              /\ p.NewAccountID # q.NewAccountID

\* with every email configured for at most one account id the planner has
\* one result
SingleIDPerEmail ==
  \A a, b \in DOMAIN load.accounts : load.accounts[a] = load.accounts[b] => a = b

DeterministicWithoutSharedEmail ==
  (load.done /\ SingleIDPerEmail) =>
    Cardinality(DetectOutcomes(load.pre, load.accounts)) = 1

\* ------------------------------------------------------------------------
\* C39: the ledger never holds two entries with the same id, after any
\* sequence of AddEntry (of new and of known ids), GetEntry, cleanup passes
\* and ClearCache.
\* ------------------------------------------------------------------------
C39_UniqueIDs ==
  \A i, j \in 1..Len(Entries) : Entries[i].ID = Entries[j].ID => i = j

\* an id that is in the ledger is added again, later and with another size,
\* while the ledger holds another entry as well
C39_Witness ==
  /\ last.op = "AddEntry" /\ ~last.added
  /\ Len(Entries) >= 2
  /\ \E i \in 1..Len(Entries) :
       /\ Entries[i].ID = last.id
       /\ Entries[i].Size # last.size
       /\ Entries[i].AccessedAt > Entries[i].CachedAt

\* ------------------------------------------------------------------------
\* C40: NewCacheManager on an account root never moves, overwrites or
\* deletes the identity record at <root>/metadata.yaml; the file there is
\* relocated to cache/cache_metadata.yaml only when it is a ledger (non-zero
\* cache_version), and a ledger that exists at the new location is never
\* overwritten.
\* ------------------------------------------------------------------------
IsIdentityRecord(file) ==
  /\ file.kind = "yaml"
  /\ "AccountID" \in DOMAIN file.doc
  /\ file.doc.AccountID # ""

HoldsLedger(file) ==
  /\ file.kind = "yaml"
  /\ "Version" \in DOMAIN file.doc
  /\ file.doc.Version # 0

ManagerCreated == scan.last.op = "NewCacheManager"

C40_IdentityRecordKept ==
  ManagerCreated =>
    /\ IsIdentityRecord(scan.last.old) => scan.old = scan.last.old /\ scan.new = scan.last.new
    /\ (scan.old # scan.last.old \/ scan.new # scan.last.new) => HoldsLedger(scan.last.old)
    /\ scan.last.new # MissingFile => scan.new = scan.last.new

\* a manager created on a root that holds an identity record, rewritten since
\* it was created, and a ledger at the new location
C40_Witness ==
  /\ ManagerCreated
  /\ IsIdentityRecord(scan.last.old)
  /\ scan.last.old.doc.CreatedAt < scan.last.old.doc.UpdatedAt
  /\ HoldsLedger(scan.last.new)
  /\ scan.last.io.mkdir /\ scan.last.io.rename

\* a legacy ledger was moved to the new location
LegacyLedgerRelocated ==
  /\ ManagerCreated
  /\ HoldsLedger(scan.last.old)
  /\ scan.last.new = MissingFile
  /\ scan.new = scan.last.old /\ scan.old = MissingFile

\* a legacy ledger was dropped because a ledger exists at the new location
LegacyLedgerDropped ==
  /\ ManagerCreated
  /\ HoldsLedger(scan.last.old) /\ HoldsLedger(scan.last.new)
  /\ scan.last.old # scan.last.new
  /\ scan.new = scan.last.new /\ scan.old = MissingFile

vars == <<now, Entries, TotalSize, files, last, emails, lastRead, rd, disk, load,
          boot, thr, envs, cid, scan, hnd, environ>>

\* C30: AddEntry on an id that is already in the ledger, and GetEntry on
\* such an id, change only the AccessedAt of that entry: no entry is added
\* or removed, the entry's size and CachedAt and the total size stay as they
\* are; GetEntry on an unknown id reports an error and changes nothing
TouchOf(id) ==
  /\ last'.op \in {"AddEntry", "GetEntry"}
  /\ last'.id = id
  /\ last'.at = now
  /\ last'.input = Entries

OnlyAccessedAtChanges(id) ==
  /\ ~last'.err
  /\ Len(Entries') = Len(Entries)
  /\ \A i \in 1..Len(Entries) :
       Entries'[i] = IF Entries[i].ID = id THEN [Entries[i] EXCEPT !.AccessedAt = now]
                     ELSE Entries[i]
  /\ TotalSize' = TotalSize

C30_TouchOnly ==
  [][\A id \in IDs :
       /\ (TouchOf(id) /\ id \in EntryIDs(Entries)) => OnlyAccessedAtChanges(id)
       /\ (TouchOf(id) /\ last'.op = "GetEntry" /\ id \notin EntryIDs(Entries)) =>
            /\ last'.err
            /\ UNCHANGED <<Entries, TotalSize, files>>]_vars

\* AddEntry with another size on an id of a ledger of two entries, some
\* time after the entry was added
C30_Witness ==
  /\ last.op = "AddEntry"
  /\ ~last.added
  /\ Len(Entries) = 2
  /\ \E i \in 1..Len(Entries) :
       /\ Entries[i].ID = last.id
       /\ Entries[i].Size # last.size
       /\ Entries[i].AccessedAt = last.at
       /\ Entries[i].AccessedAt > Entries[i].CachedAt

\* the ledger driven through the CacheManager API
Init == InitLedger /\ InitCache /\ InitNoSession /\ InitNoConfig /\ InitAux
Next == DoAddEntry \/ DoGetEntry \/ DoClearCache \/ Tick
Spec == Init /\ [][Next]_vars

\* the email cache (and the ledger it registers with) over several days
InitCacheSpec == InitLedger /\ InitCache /\ InitNoSession /\ InitNoConfig /\ InitAux
NextCache == DoSaveEmail \/ DoReadBody \/ DoGetCacheInfo \/ DoIsCached \/ CacheTick
SpecCache == InitCacheSpec /\ [][NextCache]_vars

\* one caller paging through one cached message; a read in progress is
\* eventually answered
InitReadSpec == InitRead /\ InitAux
NextRead == ReadNext
SpecRead == InitReadSpec /\ [][NextRead]_vars /\ WF_vars(ReadNext)

\* configuration loads of successive runs of the server, with account
\* operations between them
InitConfigSpec ==
  /\ InitConfig /\ InitCache /\ InitNoSession
  /\ Entries = <<>> /\ TotalSize = 0 /\ files = {} /\ last = NoOp
  /\ InitAux
NextConfig == DoLoadConfig \/ DoStoreData
SpecConfig == InitConfigSpec /\ [][NextConfig]_vars

\* successive runs of the server, one statement of main at a time
InitBootSpec ==
  /\ InitConfig /\ InitCache /\ InitNoSession
  /\ Entries = <<>> /\ TotalSize = 0 /\ files = {} /\ last = NoOp
  /\ InitBoot /\ InitNoRace /\ InitNoEnvs /\ InitNoCacheID /\ InitNoSide
NextBoot ==
  \/ DoMainDetectMigrations \/ DoMainExecuteMigration \/ DoMainStartAccounts
  \/ DoMainLoadAccount \/ DoMainRunServer \/ DoCallTool \/ DoMainRestart
SpecBoot == InitBootSpec /\ [][NextBoot]_vars

\* two callers on the ledger of one account
InitRaceSpec ==
  /\ InitLedger /\ InitCache /\ InitNoSession /\ InitNoConfig
  /\ InitNoBoot /\ InitRace /\ InitNoEnvs /\ InitNoCacheID /\ InitNoSide
NextRace == DoCacheManagerLoadMetadata \/ DoCacheManagerSaveMetadata
SpecRace == InitRaceSpec /\ [][NextRace]_vars

\* emails written to the cache of one account and their metadata read back
\* over several days
InitEnvelopeSpec ==
  /\ InitLedger /\ InitCache /\ InitNoSession /\ InitNoConfig
  /\ InitNoBoot /\ InitNoRace /\ InitEnvs /\ InitNoCacheID /\ InitNoSide
NextEnvelope == DoSaveEmailEnvelope \/ DoLoadMetadataEnvelope \/ EnvelopeTick
SpecEnvelope == InitEnvelopeSpec /\ [][NextEnvelope]_vars

\* the two derivations applied to one message id
InitCacheIDSpec ==
  /\ InitLedger /\ InitCache /\ InitNoSession /\ InitNoConfig
  /\ InitNoBoot /\ InitNoRace /\ InitNoEnvs /\ InitCacheID /\ InitNoSide
NextCacheID == DoGetEmailDir \/ DoGetEmailFile
SpecCacheID == InitCacheIDSpec /\ [][NextCacheID]_vars

\* the reads of the tools on the cache of one account over several days
InitServeSpec == InitLedger /\ InitCache /\ InitNoCall /\ InitNoConfig /\ InitAux
NextServe ==
  ServeSaveEmail \/ ServeTick \/ DoCallReadEmailBody \/ DoCallGetCacheInfo \/ ServeClearCache
SpecServe == InitServeSpec /\ [][NextServe]_vars

\* the entries of FILES_ROOT change and are scanned
InitScanSpec ==
  /\ now = 1 /\ Entries = <<>> /\ TotalSize = 0 /\ files = {} /\ last = NoOp
  /\ InitCache /\ InitNoSession /\ InitNoConfig
  /\ InitNoBoot /\ InitNoRace /\ InitNoEnvs /\ InitNoCacheID
  /\ scan = NoScan /\ InitNoHandler /\ InitNoEnv
NextScan ==
  \/ DoScanMkdirAll \/ DoScanWriteAccountMetadata \/ DoScanDamage \/ DoScanStrayFile
  \/ DoCallScanExistingFolders
SpecScan == InitScanSpec /\ [][NextScan]_vars

\* the accounts are loaded, then tools are called for them
InitHandlerSpec ==
  /\ now = 1 /\ Entries = <<>> /\ TotalSize = 0 /\ files = {} /\ last = NoOp
  /\ InitCache /\ InitNoSession /\ InitNoConfig
  /\ InitNoBoot /\ InitNoRace /\ InitNoEnvs /\ InitNoCacheID /\ InitNoScan
  /\ InitHandler /\ InitNoEnv
NextHandler ==
  \/ DoStartLoadAccount \/ DoToolFetchEmail \/ DoToolReadEmailBody
  \/ DoToolCreateDraft \/ DoToolDeleteDraft
SpecHandler == InitHandlerSpec /\ [][NextHandler]_vars

\* the environment is set up and the process is started on it
InitEnvSpec ==
  /\ now = 1 /\ Entries = <<>> /\ TotalSize = 0 /\ files = {} /\ last = NoOp
  /\ InitCache /\ InitNoSession /\ InitNoConfig
  /\ InitNoBoot /\ InitNoRace /\ InitNoEnvs /\ InitNoCacheID /\ InitNoScan /\ InitNoHandler
  /\ environ = NoEnv
NextEnv ==
  DoSetAccountEmail \/ DoSetAccountPassword \/ DoSetDefaultAccountID \/ DoCallLoadConfig
SpecEnv == InitEnvSpec /\ [][NextEnv]_vars

\* two goroutines serve requests on a handler created with a configuration
InitClientsSpec ==
  /\ now = 1 /\ Entries = <<>> /\ TotalSize = 0 /\ files = {} /\ last = NoOp
  /\ InitCache /\ InitNoSession /\ InitNoConfig
  /\ InitNoBoot /\ InitNoRace /\ InitNoEnvs /\ InitNoCacheID /\ InitNoScan /\ InitNoEnv
  /\ \E config \in HandlerConfigs : hnd = NoClientsRace(config)
NextClients ==
  \/ DoBeginRequest \/ DoLookupClients \/ DoCreateClients \/ DoStoreClients
  \/ DoTestEmailCache \/ DoSetEmailCache \/ DoReturnEmailCache \/ DoEndRequest
SpecClients == InitClientsSpec /\ [][NextClients]_vars

\* the messages of one account are fetched, read and fetched again over the
\* days of the expiry window
InitFetchSpec ==
  /\ InitLedger /\ InitNoConfig /\ InitAux
  /\ emails = [m \in FetchIDs |-> NoEmail]
  /\ lastRead = NoRead
  /\ rd = NoCall
NextFetch == DoFetchEmail \/ DoReadFetched \/ FetchTick \/ FetchClearCache
SpecFetch == InitFetchSpec /\ [][NextFetch]_vars

\* an account root over the runs of the older and of the current server
InitRootSpec ==
  /\ now = 1 /\ Entries = <<>> /\ TotalSize = 0 /\ files = {} /\ last = NoOp
  /\ InitCache /\ InitNoSession /\ InitNoConfig
  /\ InitNoBoot /\ InitNoRace /\ InitNoEnvs /\ InitNoCacheID /\ InitNoHandler /\ InitNoEnv
  /\ scan = NoAccountRoot
NextRoot ==
  \/ DoNewCacheManager \/ DoRootWriteAccountMetadata \/ DoLegacySaveMetadata
  \/ DoRootSaveMetadata \/ DoRootEdit \/ RootTick
SpecRoot == InitRootSpec /\ [][NextRoot]_vars
====
